---- MODULE Spec2Model ----
(***************************************************************************)
(* Model of the crossword / Katla guessing core of ttsla:                  *)
(*   apps/frontend/src/scenes/MainScene/index.tsx  (scene state machine)   *)
(*   apps/frontend/src/data/gameData.ts            (board helpers, load)   *)
(*   apps/backend/src/index.ts                     (POST /api/katla/check) *)
(*                                                                         *)
(* The specifications share the variables:                                 *)
(*   Spec       the scene of the production build (isDev = FALSE): puzzle  *)
(*              load, slot selection, typing, and submits whose validation *)
(*              requests are answered asynchronously, in any order.        *)
(*   SeqSpec    the scene with one submit in flight at a time.             *)
(*   RaceSpec   the scene with overlapping submits on the crossing puzzle. *)
(*   FnSpec     the pure functions, applied to inputs from bounded sets.   *)
(*   RepeatSpec evaluateGuess called again while the scene changes.        *)
(*   ApiSpec    the handler of POST /api/katla/check and its caches.       *)
(*   ModalSpec  the alternate scene whose guessing panel is a modal.       *)
(*   ScenesSpec either scene, from its own initial state.                  *)
(*   FillSpec   fillWordOnBoard on boards held as rows on a heap.          *)
(*   KeySpec    computeKeyboardState as the guesses of a slot are added.   *)
(*   SeedSpec   getDailyPuzzle from the date string and the template list. *)
(***************************************************************************)
EXTENDS Integers, Sequences, FiniteSets, Bags, TLC

VARIABLES
    isDev,           \* import.meta.env.DEV of the build
    dailyPuzzle,     \* "pending" | "none" | the template_id of the loaded puzzle
    boardState,      \* matrix of letters, "" = empty; <<>> while no template
    solvedEntries,   \* slot no -> BOOLEAN (absent key = FALSE)
    activeEntryNo,   \* slot no or NoEntry
    katlaGuesses,    \* guesses shown in the panel
    currentGuess,    \* typed letters
    katlaMessage,    \* message shown in the panel
    entryAttempts,   \* slot no -> sequence of GuessResult (absent key = <<>>)
    failedEntries,   \* slot no -> BOOLEAN (absent key = FALSE)
    inflight,        \* bag of the submitGuess calls awaiting their response
    accepted,        \* number of guesses accepted so far (bounds a run)
    call,            \* the call being made ("none" in the scene of Spec)
    ret              \* its result: [done, value], NoRet before the call

vars == <<isDev, dailyPuzzle, boardState, solvedEntries, activeEntryNo,
          katlaGuesses, currentGuess, katlaMessage,
          entryAttempts, failedEntries, inflight, accepted, call, ret>>

sceneVars == <<isDev, dailyPuzzle, boardState, solvedEntries, activeEntryNo,
               katlaGuesses, currentGuess, katlaMessage,
               entryAttempts, failedEntries, inflight, accepted>>

fnVars == <<call, ret>>

\* null in a letter position (a consumed letter of evaluateGuess)
Null == "null"

\* null where a slot number is expected (slot numbers are positive)
NoEntry == 0

\* FnSpec: no call made yet
NoRet == [done |-> FALSE, value |-> <<>>]

----
(* Bounds *)

\* A run is explored up to a number of accepted guesses (counting the requests
\* still awaiting a response) and a number of requests awaiting a response at
\* the same time; both depend on the puzzle that is loaded.

\* puzzles "0", "1", "2": requests awaiting a response at the same time
MaxInflight == 2

\* puzzle "0" (one slot): accepted guesses
SoloAccepted == 7

\* puzzle "1" (two crossing slots): accepted guesses
CrossAccepted == 4

\* puzzle "2" (three slots, one completed by the other two): accepted guesses
AutoAccepted == 3

\* puzzles "3" (two crossing slots) and "4": requests awaiting a response at
\* the same time
SeqInflight == 1

\* puzzles "3" and "4": accepted guesses
SeqAccepted == 7

\* length of the words drawn exhaustively for the pure functions
MaxWordLen == 3

\* RaceSpec (puzzle "2", across words guessed right): requests awaiting a
\* response at the same time, and accepted guesses
RaceInflight == 2

RaceAccepted == 9

\* seeds of the day's date
MaxSeed == 9

----
(* Small helpers of the JavaScript runtime *)

Max(a, b) == IF a >= b THEN a ELSE b

\* Array.prototype.findIndex / indexOf on a 1-based sequence: 0 when absent
RECURSIVE FindIndexFrom(_, _, _)
FindIndexFrom(arr, x, i) ==
    IF i > Len(arr) THEN 0
    ELSE IF arr[i] = x THEN i
    ELSE FindIndexFrom(arr, x, i + 1)

findIndex(arr, x) == FindIndexFrom(arr, x, 1)

----
(* evaluateGuess, MainScene/index.tsx:160-185 *)

\* mutant: an exact match leaves its letter among the remaining ones
RECURSIVE evaluatePass1NoConsume(_, _, _, _, _)
evaluatePass1NoConsume(guessChars, target, i, result, remaining) ==
    IF i > Len(guessChars) THEN [result |-> result, remaining |-> remaining]
    ELSE IF i <= Len(target) /\ guessChars[i] = target[i]
         THEN evaluatePass1NoConsume(guessChars, target, i + 1,
                                     [result EXCEPT ![i] = "correct"], remaining)
         ELSE evaluatePass1NoConsume(guessChars, target, i + 1, result, remaining)

\* mutant: the first loop marks nothing
evaluatePass1Skipped(guessChars, target, i, result, remaining) ==
    [result |-> result, remaining |-> remaining]

\* first loop: exact-position matches
RECURSIVE evaluatePass1(_, _, _, _, _)
evaluatePass1(guessChars, target, i, result, remaining) ==
    IF i > Len(guessChars) THEN [result |-> result, remaining |-> remaining]
    ELSE IF i <= Len(target) /\ guessChars[i] = target[i]
         THEN evaluatePass1(guessChars, target, i + 1,
                            [result EXCEPT ![i] = "correct"],
                            [remaining EXCEPT ![i] = Null])
         ELSE evaluatePass1(guessChars, target, i + 1, result, remaining)

\* mutant: a hit in the second loop does not consume the letter it matched
RECURSIVE evaluatePass2NoConsume(_, _, _, _)
evaluatePass2NoConsume(guessChars, i, result, remaining) ==
    IF i > Len(guessChars) THEN result
    ELSE IF result[i] = "correct"
         THEN evaluatePass2NoConsume(guessChars, i + 1, result, remaining)
         ELSE IF findIndex(remaining, guessChars[i]) # 0
              THEN evaluatePass2NoConsume(guessChars, i + 1,
                                          [result EXCEPT ![i] = "present"], remaining)
              ELSE evaluatePass2NoConsume(guessChars, i + 1,
                                          [result EXCEPT ![i] = "absent"], remaining)

\* mutant: a letter the target does not hold is marked present as well
RECURSIVE evaluatePass2NeverAbsent(_, _, _, _)
evaluatePass2NeverAbsent(guessChars, i, result, remaining) ==
    IF i > Len(guessChars) THEN result
    ELSE IF result[i] = "correct"
         THEN evaluatePass2NeverAbsent(guessChars, i + 1, result, remaining)
         ELSE LET foundIndex == findIndex(remaining, guessChars[i])
              IN  IF foundIndex # 0
                  THEN evaluatePass2NeverAbsent(guessChars, i + 1,
                                     [result EXCEPT ![i] = "present"],
                                     [remaining EXCEPT ![foundIndex] = Null])
                  ELSE evaluatePass2NeverAbsent(guessChars, i + 1,
                                     [result EXCEPT ![i] = "present"],
                                     remaining)

\* second loop: left to right, each hit consumes the first remaining occurrence
RECURSIVE evaluatePass2(_, _, _, _)
evaluatePass2(guessChars, i, result, remaining) ==
    IF i > Len(guessChars) THEN result
    ELSE IF result[i] = "correct"
         THEN evaluatePass2(guessChars, i + 1, result, remaining)
         ELSE LET foundIndex == findIndex(remaining, guessChars[i])
              IN  IF foundIndex # 0
                  THEN evaluatePass2(guessChars, i + 1,
                                     [result EXCEPT ![i] = "present"],
                                     [remaining EXCEPT ![foundIndex] = Null])
                  ELSE evaluatePass2(guessChars, i + 1,
                                     [result EXCEPT ![i] = "absent"],
                                     remaining)

\* mutant: only exact-position matches are marked, the second loop is skipped
evaluateGuessExactOnly(guess, target) ==
    LET n  == Max(Len(guess), Len(target))
        r0 == [i \in 1..n |-> "absent"]
    IN  evaluatePass1(guess, target, 1, r0, target).result

\* mutant: a letter found anywhere in the target counts as an exact match
evaluateGuessAnywhere(guess, target) ==
    [i \in 1..Max(Len(guess), Len(target)) |->
        IF i <= Len(guess) /\ \E j \in 1..Len(target) : target[j] = guess[i]
        THEN "correct" ELSE "absent"]

evaluateGuess(guess, target) ==
    LET n  == Max(Len(guess), Len(target))
        r0 == [i \in 1..n |-> "absent"]
        p1 == evaluatePass1(guess, target, 1, r0, target)
    IN  evaluatePass2(guess, 1, p1.result, p1.remaining)

----
(* Puzzle data: the puzzle files the backend serves (GET /api/puzzle-templates,
   backend index.ts:131-147) and the dictionary file. *)

\* puzzle-0: one across word
\* puzzle-1: an across and a down word sharing their first cell
\* puzzle-2: two across words and a down word whose cells both lie on an across word
\* puzzle-3: a down word, written in lower case in the file, starting on the
\*           last cell of an across word
\* puzzle-4: one across word that the dictionary file does not hold
PuzzleFiles ==
    [ id \in {"0", "1", "2", "3", "4"} |->
        CASE id = "0" ->
               [rows |-> 1, cols |-> 2, grid |-> << <<1, 1>> >>,
                answers |-> << [direction |-> "across", start |-> <<0, 0>>,
                                word |-> <<"A", "B">>] >>]
          [] id = "1" ->
               [rows |-> 2, cols |-> 2, grid |-> << <<1, 1>>, <<1, 0>> >>,
                answers |-> << [direction |-> "across", start |-> <<0, 0>>,
                                word |-> <<"A", "B">>],
                               [direction |-> "down", start |-> <<0, 0>>,
                                word |-> <<"A", "B">>] >>]
          [] id = "2" ->
               [rows |-> 2, cols |-> 2, grid |-> << <<1, 1>>, <<1, 1>> >>,
                answers |-> << [direction |-> "across", start |-> <<0, 0>>,
                                word |-> <<"A", "B">>],
                               [direction |-> "across", start |-> <<1, 0>>,
                                word |-> <<"B", "A">>],
                               [direction |-> "down", start |-> <<0, 0>>,
                                word |-> <<"A", "B">>] >>]
          [] id = "3" ->
               [rows |-> 2, cols |-> 2, grid |-> << <<1, 1>>, <<0, 1>> >>,
                answers |-> << [direction |-> "across", start |-> <<0, 0>>,
                                word |-> <<"B", "A">>],
                               [direction |-> "down", start |-> <<0, 1>>,
                                word |-> <<"a", "b">>] >>]
          [] id = "4" ->
               [rows |-> 1, cols |-> 2, grid |-> << <<1, 1>> >>,
                answers |-> << [direction |-> "across", start |-> <<0, 0>>,
                                word |-> <<"B", "B">>] >>] ]

TemplateIds == DOMAIN PuzzleFiles

\* the keys of the served map in the order Object.entries walks them
PuzzleOrder == <<"0", "1", "2", "3", "4">>

\* words of the dictionary file, by length (backend getKbbiBank)
KbbiBank == [len \in {2} |-> { <<"A", "B">>, <<"B", "A">> }]

Letters == {"A", "B"}

\* the words the player types: a slot's word, a valid wrong word, and a word
\* the dictionary does not hold
TypedWords == { <<"A", "B">>, <<"B", "A">>, <<"B", "B">> }

isPrefix(p, w) == Len(p) <= Len(w) /\ SubSeq(w, 1, Len(p)) = p

maxAttempts == 6

\* String.prototype.toUpperCase on the letters of the model
upperOf(ch) ==
    CASE ch = "a" -> "A"
      [] ch = "b" -> "B"
      [] ch = "c" -> "C"
      [] OTHER    -> ch

toUpperCase(w) == [i \in 1..Len(w) |-> upperOf(w[i])]

\* mutant: the slots are numbered one further than the backend's answers, the
\* last one taking the first answer
convertTemplateShifted(key, data) ==
    [ id       |-> key,
      gridSize |-> <<data.rows, data.cols>>,
      grid     |-> data.grid,
      words    |-> [index \in 1..Len(data.answers) |->
                      [no     |-> index,
                       arah   |-> IF data.answers[index].direction = "across"
                                  THEN "mendatar" ELSE "menurun",
                       start  |-> data.answers[index].start,
                       length |-> Len(data.answers[index].word),
                       word   |-> data.answers[(index % Len(data.answers)) + 1].word]] ]

\* getTtsTemplates, gameData.ts:111-123: backend format to TTSTemplate
convertTemplate(key, data) ==
    [ id       |-> key,
      gridSize |-> <<data.rows, data.cols>>,
      grid     |-> data.grid,
      words    |-> [index \in 1..Len(data.answers) |->
                      [no     |-> index,
                       arah   |-> IF data.answers[index].direction = "across"
                                  THEN "mendatar" ELSE "menurun",
                       start  |-> data.answers[index].start,
                       length |-> Len(data.answers[index].word),
                       word   |-> data.answers[index].word]] ]

templates == [id \in TemplateIds |-> convertTemplate(id, PuzzleFiles[id])]

\* the template before the load has resolved (template === null)
NoTemplate == [id |-> Null, gridSize |-> <<0, 0>>, grid |-> <<>>, words |-> <<>>]

\* slot numbers any template uses; a flag or attempt map has these keys,
\* an absent key of the code's Record being FALSE or the empty list
SlotNos == UNION { { templates[id].words[i].no : i \in 1..Len(templates[id].words) } :
                   id \in TemplateIds }

\* jawaban_harian of getDailyPuzzle (gameData.ts:411-416), by template and slot
jawabanHarian ==
    [id \in TemplateIds |->
        [i \in 1..Len(templates[id].words) |->
            [no      |-> templates[id].words[i].no,
             jawaban |-> toUpperCase(templates[id].words[i].word)]]]

\* template.words.find((w) => w.no === no): index of the first match, 0 if none
slotIndex(template, no) ==
    CHOOSE i \in 0..Len(template.words) :
        /\ (i # 0 => template.words[i].no = no)
        /\ \A j \in 1..Len(template.words) :
               template.words[j].no = no => (i # 0 /\ i <= j)

hasSlot(template, no) == slotIndex(template, no) # 0

findSlot(template, no) == template.words[slotIndex(template, no)]

\* cell i (0-based) of a slot, as <<row, col>> (0-based)
slotCell(slot, i) ==
    IF slot.arah = "mendatar"
    THEN <<slot.start[1], slot.start[2] + i>>
    ELSE <<slot.start[1] + i, slot.start[2]>>

inBoard(board, row, col) ==
    /\ row >= 0 /\ row < Len(board)
    /\ col >= 0 /\ col < Len(board[row + 1])

\* buildCellMetadata, MainScene/index.tsx:77-112
buildCellMetadata(template) ==
    LET rows == template.gridSize[1]
        cols == template.gridSize[2]
        covers(k, row, col) ==
            /\ template.grid[row + 1][col + 1] = 1
            /\ \E i \in 0..(template.words[k].length - 1) :
                   slotCell(template.words[k], i) = <<row, col>>
        starts(row, col) ==
            { k \in 1..Len(template.words) :
                  /\ template.grid[row + 1][col + 1] = 1
                  /\ slotCell(template.words[k], 0) = <<row, col>> }
    IN  [ slotLengths |-> [k \in 1..Len(template.words) |-> template.words[k].length],
          slotsByCell |->
              [row \in 0..(rows - 1) |-> [col \in 0..(cols - 1) |->
                  SelectSeq([k \in 1..Len(template.words) |->
                                IF covers(k, row, col) THEN template.words[k].no ELSE 0],
                            LAMBDA n : n # 0)]],
          numbering |->
              [row \in 0..(rows - 1) |-> [col \in 0..(cols - 1) |->
                  IF starts(row, col) = {} THEN NoEntry
                  ELSE template.words[CHOOSE k \in starts(row, col) :
                                          \A j \in starts(row, col) : j <= k].no]] ]

\* the useMemo of buildCellMetadata (297-300), one value per template
cellMetadataOf == [id \in TemplateIds |-> buildCellMetadata(templates[id])]

createEmptyBoard(template) ==
    IF template = NoTemplate THEN <<>>
    ELSE [r \in 1..template.gridSize[1] |->
             [c \in 1..template.gridSize[2] |-> ""]]

----
(* fillWordOnBoard, gameData.ts:441-464 *)

RECURSIVE fillChars(_, _, _, _)
fillChars(newBoard, slot, chars, i) ==
    IF i >= Len(chars) THEN newBoard
    ELSE LET rc  == slotCell(slot, i)
             row == rc[1]
             col == rc[2]
         IN  IF inBoard(newBoard, row, col)
             THEN fillChars([newBoard EXCEPT ![row + 1][col + 1] = chars[i + 1]],
                            slot, chars, i + 1)
             ELSE fillChars(newBoard, slot, chars, i + 1)

\* mutant: only the first letter of the word is written
fillWordOnBoardFirstLetter(board, template, wordNo, answer) ==
    IF ~hasSlot(template, wordNo) THEN board
    ELSE fillChars(board, findSlot(template, wordNo), SubSeq(answer, 1, 1), 0)

fillWordOnBoard(board, template, wordNo, answer) ==
    IF ~hasSlot(template, wordNo) THEN board
    ELSE fillChars(board, findSlot(template, wordNo), answer, 0)

----
(* computeKeyboardState, MainScene/index.tsx:153-199 *)

STATE_PRIORITY(state) ==
    CASE state = "empty"   -> 0
      [] state = "absent"  -> 1
      [] state = "present" -> 2
      [] state = "correct" -> 3

\* mutant: the state of the latest guess replaces the one the letter had
RECURSIVE keyboardLettersLatest(_, _, _, _)
keyboardLettersLatest(map, guess, states, idx) ==
    IF idx > Len(guess) THEN map
    ELSE keyboardLettersLatest([l \in (DOMAIN map) \cup {guess[idx]} |->
                                   IF l = guess[idx] THEN states[idx] ELSE map[l]],
                               guess, states, idx + 1)

\* one forEach step over the letters of a guess
RECURSIVE keyboardLetters(_, _, _, _)
keyboardLetters(map, guess, states, idx) ==
    IF idx > Len(guess) THEN map
    ELSE LET letter    == guess[idx]
             state     == states[idx]
             prevState == IF letter \in DOMAIN map THEN map[letter] ELSE "empty"
         IN  IF STATE_PRIORITY(state) > STATE_PRIORITY(prevState)
             THEN keyboardLetters([l \in (DOMAIN map) \cup {letter} |->
                                      IF l = letter THEN state ELSE map[l]],
                                  guess, states, idx + 1)
             ELSE keyboardLetters(map, guess, states, idx + 1)

RECURSIVE keyboardGuesses(_, _, _)
keyboardGuesses(map, guesses, k) ==
    IF k > Len(guesses) THEN map
    ELSE keyboardGuesses(keyboardLetters(map, guesses[k].guess, guesses[k].states, 1),
                         guesses, k + 1)

EmptyMap == [l \in {} |-> "empty"]

computeKeyboardState(guesses) == keyboardGuesses(EmptyMap, guesses, 1)

----
(* POST /api/katla/check, backend index.ts:176-212, for the well-formed
   requests the scene sends *)

katlaCheck(word, templateId, slotNo) ==
    LET guess   == toUpperCase(word)
        valid   == IF Len(guess) \in DOMAIN KbbiBank
                   THEN guess \in KbbiBank[Len(guess)]
                   ELSE FALSE
        correct == IF templateId \in TemplateIds
                      /\ slotNo - 1 < Len(PuzzleFiles[templateId].answers)
                   THEN guess = toUpperCase(PuzzleFiles[templateId].answers[slotNo].word)
                   ELSE FALSE
    IN  [valid |-> valid, correct |-> correct]

----
(* Scene state machine, MainScene/index.tsx:201-596 *)

MsgLength   == "Tebakan harus terdiri dari n huruf."
MsgFetch    == "Gagal memeriksa kata. Coba lagi beberapa saat."
MsgInvalid  == "Kata tidak ditemukan di daftar KBBI. Coba kata baku lain."
MsgSolved   == "Slot ini sudah terisi. Lanjutkan ke kata lainnya."
MsgFailed   == "Kesempatan habis. Coba lagi nanti."
MsgGuess    == "Tebak kata n huruf."

NoFlags == [no \in SlotNos |-> FALSE]

NoAttempts == [no \in SlotNos |-> <<>>]

\* the template useMemo (212-280): the template matching dailyPuzzle.template_id
template == IF dailyPuzzle \in TemplateIds THEN templates[dailyPuzzle] ELSE NoTemplate

cellMetadata == cellMetadataOf[dailyPuzzle]

\* activeEntry.jawaban for slot no of the loaded puzzle
jawaban(no) ==
    LET entries == jawabanHarian[dailyPuzzle]
    IN  entries[CHOOSE i \in 1..Len(entries) : entries[i].no = no].jawaban

\* dailyPuzzle.jawaban_harian.map(entry => entry.no)
entryNos == { jawabanHarian[dailyPuzzle][i].no : i \in 1..Len(jawabanHarian[dailyPuzzle]) }

activeEntryLength == cellMetadata.slotLengths[activeEntryNo]

allCorrect(states) == \A i \in 1..Len(states) : states[i] = "correct"

\* mutant: the panel of a selected slot starts without its stored guesses
restoreEffectEmpty(active, attempts, solved, failed, message) ==
    IF active = NoEntry
    THEN [katlaGuesses |-> <<>>, currentGuess |-> <<>>, katlaMessage |-> message]
    ELSE [katlaGuesses |-> <<>>, currentGuess |-> <<>>,
          katlaMessage |-> IF solved[active] THEN MsgSolved
                           ELSE IF failed[active] THEN MsgFailed
                           ELSE MsgGuess]

\* the restore effect (350-368), run after a render in which activeEntry,
\* entryAttempts, failedEntries or solvedEntries changed
restoreEffect(active, attempts, solved, failed, message) ==
    IF active = NoEntry
    THEN [katlaGuesses |-> <<>>, currentGuess |-> <<>>, katlaMessage |-> message]
    ELSE [katlaGuesses |-> attempts[active], currentGuess |-> <<>>,
          katlaMessage |-> IF solved[active] THEN MsgSolved
                           ELSE IF failed[active] THEN MsgFailed
                           ELSE MsgGuess]

\* the letters the board holds along a slot (handleMarkSolved 408-424)
RECURSIVE wordFromBoard(_, _, _, _)
wordFromBoard(board, slot, i, acc) ==
    IF i >= slot.length THEN [allFilled |-> TRUE, word |-> acc]
    ELSE LET rc == slotCell(slot, i)
         IN  IF inBoard(board, rc[1], rc[2])
             THEN LET letter == board[rc[1] + 1][rc[2] + 1]
                  IN  IF letter = ""
                      THEN [allFilled |-> FALSE, word |-> acc]
                      ELSE wordFromBoard(board, slot, i + 1, Append(acc, letter))
             ELSE [allFilled |-> FALSE, word |-> acc]

\* mutant: a slot is auto-solved as soon as the board holds a first part of
\* its word
handleMarkSolvedPartial(no, solved, failed, board, prevFailed) ==
    LET updatedSolved == [solved EXCEPT ![no] = TRUE]
        updatedBoard  == fillWordOnBoard(board, template, no, jawaban(no))
        autoSolved    == { e \in entryNos :
                             /\ ~(updatedSolved[e] \/ failed[e])
                             /\ hasSlot(template, e)
                             /\ LET w == wordFromBoard(updatedBoard,
                                                       findSlot(template, e), 0, <<>>)
                                IN  w.word # <<>> /\ isPrefix(w.word, jawaban(e)) }
    IN  [solvedEntries |-> [e \in SlotNos |-> updatedSolved[e] \/ e \in autoSolved],
         failedEntries |-> [prevFailed EXCEPT ![no] = FALSE],
         boardState    |-> updatedBoard]

\* mutant: the solved word is not written to the board
handleMarkSolvedBoardKept(no, solved, failed, board, prevFailed) ==
    LET updatedSolved == [solved EXCEPT ![no] = TRUE]
        autoSolved    == { e \in entryNos :
                             /\ ~(updatedSolved[e] \/ failed[e])
                             /\ hasSlot(template, e)
                             /\ LET w == wordFromBoard(board,
                                                       findSlot(template, e), 0, <<>>)
                                IN  w.allFilled /\ w.word = jawaban(e) }
    IN  [solvedEntries |-> [e \in SlotNos |-> updatedSolved[e] \/ e \in autoSolved],
         failedEntries |-> [prevFailed EXCEPT ![no] = FALSE],
         boardState    |-> board]

\* handleMarkSolved (390-437) for the closure of one render: activeEntry.no,
\* solvedEntries, failedEntries and boardState are the values that render saw;
\* prevFailed is the failedEntries the functional update is applied to.
handleMarkSolved(no, solved, failed, board, prevFailed) ==
    LET updatedSolved == [solved EXCEPT ![no] = TRUE]
        updatedBoard  == fillWordOnBoard(board, template, no, jawaban(no))
        autoSolved    == { e \in entryNos :
                             /\ ~(updatedSolved[e] \/ failed[e])
                             /\ hasSlot(template, e)
                             /\ LET w == wordFromBoard(updatedBoard,
                                                       findSlot(template, e), 0, <<>>)
                                IN  w.allFilled /\ w.word = jawaban(e) }
    IN  [solvedEntries |-> [e \in SlotNos |-> updatedSolved[e] \/ e \in autoSolved],
         failedEntries |-> [prevFailed EXCEPT ![no] = FALSE],
         boardState    |-> updatedBoard]

Init ==
    /\ isDev = FALSE
    /\ dailyPuzzle = "pending"
    /\ boardState = createEmptyBoard(NoTemplate)
    /\ solvedEntries = NoFlags
    /\ activeEntryNo = NoEntry
    /\ katlaGuesses = <<>>
    /\ currentGuess = <<>>
    /\ katlaMessage = Null
    /\ entryAttempts = NoAttempts
    /\ failedEntries = NoFlags
    /\ inflight = EmptyBag
    /\ accepted = 0
    /\ call = [op |-> "none"]
    /\ ret = NoRet

\* what the request for /api/puzzle-templates can end in (gameData.ts:104-108):
\* the templates, a non-2xx status, a rejected fetch, a body that is not JSON,
\* a body without the expected fields
TemplateFetches == {"ok", "status", "rejected", "notJson", "noAnswers"}

\* mutant: a failed request yields the templates all the same
getTtsTemplatesAnyway(fetched) ==
    [k \in 1..Len(PuzzleOrder) |-> templates[PuzzleOrder[k]]]

\* getTtsTemplates (gameData.ts:100-133): the converted templates in key
\* order, the empty list when anything in the try block throws
getTtsTemplates(fetched) ==
    IF fetched = "ok"
    THEN [k \in 1..Len(PuzzleOrder) |-> templates[PuzzleOrder[k]]]
    ELSE <<>>

\* seedFromDate(dateStr) (gameData.ts:187-193), up to MaxSeed
Seeds == 0..MaxSeed

\* getDailyPuzzle (gameData.ts:393-427): the template_id of the puzzle of the
\* day, "none" for null
getDailyPuzzle(fetched, seed) ==
    LET tpls == getTtsTemplates(fetched)
    IN  IF Len(tpls) = 0 THEN "none"
        ELSE tpls[(seed % Len(tpls)) + 1].id

\* getDailyPuzzle resolves with the puzzle of template id; the reset effect
\* (314-336) runs
LoadPuzzle(id) ==
    /\ dailyPuzzle = "pending"
    /\ \E seed \in Seeds : getDailyPuzzle("ok", seed) = id
    /\ dailyPuzzle' = id
    /\ boardState' = createEmptyBoard(templates[id])
    /\ solvedEntries' = NoFlags
    /\ activeEntryNo' = NoEntry
    /\ katlaGuesses' = <<>>
    /\ currentGuess' = <<>>
    /\ katlaMessage' = Null
    /\ entryAttempts' = NoAttempts
    /\ failedEntries' = NoFlags
    /\ UNCHANGED <<isDev, inflight, accepted, call, ret>>

\* getDailyPuzzle resolves with null (gameData.ts:393-427)
LoadFail ==
    /\ dailyPuzzle = "pending"
    /\ \E fetched \in TemplateFetches, seed \in Seeds :
           getDailyPuzzle(fetched, seed) = "none"
    /\ dailyPuzzle' = "none"
    /\ UNCHANGED <<isDev, boardState, solvedEntries, activeEntryNo, katlaGuesses,
                   currentGuess, katlaMessage, entryAttempts,
                   failedEntries, inflight, accepted, call, ret>>

\* handleSelectEntry (370-383) followed by the restore effect
handleSelectEntry(no) ==
    /\ ~(solvedEntries[no] \/ failedEntries[no])
    /\ activeEntryNo' = no
    /\ IF no # activeEntryNo
       THEN LET e == restoreEffect(no, entryAttempts, solvedEntries,
                                   failedEntries, katlaMessage)
            IN  /\ katlaGuesses' = e.katlaGuesses
                /\ currentGuess' = e.currentGuess
                /\ katlaMessage' = e.katlaMessage
       ELSE UNCHANGED <<katlaGuesses, currentGuess, katlaMessage>>
    /\ UNCHANGED <<isDev, dailyPuzzle, boardState, solvedEntries, entryAttempts,
                   failedEntries, inflight, accepted, call, ret>>

\* mutant: a click selects the first slot of the cell, whatever its flags
handleCellClickAny(row, col) ==
    /\ dailyPuzzle \in TemplateIds
    /\ row < template.gridSize[1] /\ col < template.gridSize[2]
    /\ template.grid[row + 1][col + 1] = 1
    /\ LET no == cellMetadata.slotsByCell[row][col][1]
           e  == restoreEffect(no, entryAttempts, solvedEntries,
                               failedEntries, katlaMessage)
       IN  /\ activeEntryNo' = no
           /\ katlaGuesses' = e.katlaGuesses
           /\ currentGuess' = e.currentGuess
           /\ katlaMessage' = e.katlaMessage
    /\ UNCHANGED <<isDev, dailyPuzzle, boardState, solvedEntries, entryAttempts,
                   failedEntries, inflight, accepted, call, ret>>

\* a click on a clickable cell: handleCellClick (439-466)
handleCellClick(row, col) ==
    /\ dailyPuzzle \in TemplateIds
    /\ row < template.gridSize[1] /\ col < template.gridSize[2]
    /\ template.grid[row + 1][col + 1] = 1
    /\ LET cellSlots  == cellMetadata.slotsByCell[row][col]
           candidates == SelectSeq(cellSlots,
                             LAMBDA no : ~solvedEntries[no] /\ ~failedEntries[no])
           preferred  == cellMetadata.numbering[row][col]
       IN  /\ Len(candidates) > 0
           /\ IF preferred # NoEntry
                 /\ \E k \in 1..Len(candidates) : candidates[k] = preferred
              THEN handleSelectEntry(preferred)
              ELSE handleSelectEntry(candidates[1])

\* handleCloseKatla (385-388) followed by the restore effect
handleCloseKatla ==
    /\ activeEntryNo # NoEntry
    /\ activeEntryNo' = NoEntry
    /\ LET e == restoreEffect(NoEntry, entryAttempts, solvedEntries,
                              failedEntries, Null)
       IN  /\ katlaGuesses' = e.katlaGuesses
           /\ currentGuess' = e.currentGuess
           /\ katlaMessage' = e.katlaMessage
    /\ UNCHANGED <<isDev, dailyPuzzle, boardState, solvedEntries, entryAttempts,
                   failedEntries, inflight, accepted, call, ret>>

\* the guard every keyboard input passes first (569-570)
keyboardAccepts ==
    /\ activeEntryNo # NoEntry
    /\ ~solvedEntries[activeEntryNo]
    /\ ~failedEntries[activeEntryNo]
    /\ Len(katlaGuesses) < maxAttempts

\* handleKeyboardInput with a letter (587-593), the player typing towards one
\* of words
KeyLetterOf(letter, words) ==
    /\ keyboardAccepts
    /\ \/ Len(currentGuess) >= activeEntryLength
       \/ \E w \in words : isPrefix(Append(currentGuess, letter), w)
    /\ currentGuess' = IF Len(currentGuess) >= activeEntryLength
                       THEN currentGuess
                       ELSE Append(currentGuess, letter)
    /\ katlaMessage' = Null
    /\ UNCHANGED <<isDev, dailyPuzzle, boardState, solvedEntries, activeEntryNo,
                   katlaGuesses, entryAttempts, failedEntries,
                   inflight, accepted, call, ret>>

KeyLetter(letter) == KeyLetterOf(letter, TypedWords)

\* handleKeyboardInput with backspace (577-585)
KeyBackspace ==
    /\ keyboardAccepts
    /\ currentGuess' = IF Len(currentGuess) = 0
                       THEN currentGuess
                       ELSE SubSeq(currentGuess, 1, Len(currentGuess) - 1)
    /\ katlaMessage' = Null
    /\ UNCHANGED <<isDev, dailyPuzzle, boardState, solvedEntries, activeEntryNo,
                   katlaGuesses, entryAttempts, failedEntries,
                   inflight, accepted, call, ret>>

\* what submitGuess and the handleMarkSolved it closes over keep from the
\* render in which ENTER was pressed
closure ==
    [no            |-> activeEntryNo,
     guess         |-> toUpperCase(currentGuess),
     katlaGuesses  |-> katlaGuesses,
     solvedEntries |-> solvedEntries,
     failedEntries |-> failedEntries,
     boardState    |-> boardState]

\* the early returns of submitGuess (469-470)
submitGuard ==
    /\ activeEntryNo # NoEntry
    /\ dailyPuzzle \in TemplateIds
    /\ Len(katlaGuesses) < maxAttempts

\* mutant: a guess of the wrong length is sent for validation all the same
SubmitLengthMismatchSent ==
    /\ keyboardAccepts
    /\ submitGuard
    /\ Len(currentGuess) # activeEntryLength
    /\ katlaMessage' = MsgLength
    /\ inflight' = inflight (+) SetToBag({closure})
    /\ UNCHANGED <<isDev, dailyPuzzle, boardState, solvedEntries, activeEntryNo,
                   katlaGuesses, currentGuess, entryAttempts,
                   failedEntries, accepted, call, ret>>

\* ENTER with a guess of the wrong length: submitGuess 468-483
SubmitLengthMismatch ==
    /\ keyboardAccepts
    /\ submitGuard
    /\ Len(currentGuess) # activeEntryLength
    /\ katlaMessage' = MsgLength
    /\ UNCHANGED <<isDev, dailyPuzzle, boardState, solvedEntries, activeEntryNo,
                   katlaGuesses, currentGuess, entryAttempts,
                   failedEntries, inflight, accepted, call, ret>>

\* how far a run on puzzle id is explored
maxInflightOf(id) == IF id \in {"3", "4"} THEN SeqInflight ELSE MaxInflight

maxAcceptedOf(id) ==
    CASE id = "0" -> SoloAccepted
      [] id = "1" -> CrossAccepted
      [] id = "2" -> AutoAccepted
      [] OTHER    -> SeqAccepted

\* ENTER with a guess of the slot's length: submitGuess 468-496, up to the
\* fetch; a run is explored while at most maxIn requests await their response
\* and at most maxAcc guesses are accepted
SubmitWithin(maxIn, maxAcc) ==
    /\ keyboardAccepts
    /\ submitGuard
    /\ Len(currentGuess) = activeEntryLength
    /\ BagCardinality(inflight) < maxIn
    /\ accepted + BagCardinality(inflight) < maxAcc
    /\ inflight' = inflight (+) SetToBag({closure})
    /\ UNCHANGED <<isDev, dailyPuzzle, boardState, solvedEntries, activeEntryNo,
                   katlaGuesses, currentGuess, katlaMessage,
                   entryAttempts, failedEntries, accepted, call, ret>>

SubmitSend == SubmitWithin(maxInflightOf(dailyPuzzle), maxAcceptedOf(dailyPuzzle))

\* mutant: a failed request clears the typed guess
ResponseFailedClears(c) ==
    /\ BagIn(c, inflight)
    /\ inflight' = inflight (-) SetToBag({c})
    /\ katlaMessage' = MsgFetch
    /\ currentGuess' = <<>>
    /\ UNCHANGED <<isDev, dailyPuzzle, boardState, solvedEntries, activeEntryNo,
                   katlaGuesses, entryAttempts,
                   failedEntries, accepted, call, ret>>

\* the fetch throws or answers non-2xx: submitGuess 497-511
ResponseFailed(c) ==
    /\ BagIn(c, inflight)
    /\ inflight' = inflight (-) SetToBag({c})
    /\ katlaMessage' = MsgFetch
    /\ UNCHANGED <<isDev, dailyPuzzle, boardState, solvedEntries, activeEntryNo,
                   katlaGuesses, currentGuess, entryAttempts,
                   failedEntries, accepted, call, ret>>

\* mutant: a word the dictionary rejects is recorded as an attempt all the same
ResponseInvalidRecorded(c) ==
    /\ BagIn(c, inflight)
    /\ ~katlaCheck(c.guess, template.id, c.no).valid
    /\ inflight' = inflight (-) SetToBag({c})
    /\ katlaMessage' = MsgInvalid
    /\ entryAttempts' =
           [entryAttempts EXCEPT ![c.no] =
               Append(c.katlaGuesses,
                      [guess |-> c.guess,
                       states |-> evaluateGuess(c.guess, jawaban(c.no))])]
    /\ UNCHANGED <<isDev, dailyPuzzle, boardState, solvedEntries, activeEntryNo,
                   katlaGuesses, currentGuess,
                   failedEntries, accepted, call, ret>>

\* the backend answers valid = false: submitGuess 513-523
ResponseInvalid(c) ==
    /\ BagIn(c, inflight)
    /\ ~katlaCheck(c.guess, template.id, c.no).valid
    /\ inflight' = inflight (-) SetToBag({c})
    /\ katlaMessage' = MsgInvalid
    /\ UNCHANGED <<isDev, dailyPuzzle, boardState, solvedEntries, activeEntryNo,
                   katlaGuesses, currentGuess, entryAttempts,
                   failedEntries, accepted, call, ret>>

\* mutant: the guess is appended to the stored attempts of the slot instead of
\* the guesses the submitting render showed
acceptGuessOntoStored(c) ==
    LET states         == evaluateGuess(c.guess, jawaban(c.no))
        guessResult    == [guess |-> c.guess, states |-> states]
        updatedGuesses == Append(entryAttempts[c.no], guessResult)
        attempts       == [entryAttempts EXCEPT ![c.no] = updatedGuesses]
    IN  IF allCorrect(states)
        THEN LET m == handleMarkSolved(c.no, c.solvedEntries, c.failedEntries,
                                       c.boardState, failedEntries)
             IN  [entryAttempts |-> attempts,
                  solvedEntries |-> m.solvedEntries,
                  failedEntries |-> m.failedEntries,
                  boardState    |-> m.boardState,
                  activeEntryNo |-> NoEntry,
                  katlaMessage  |-> Null]
        ELSE IF Len(updatedGuesses) >= maxAttempts
        THEN [entryAttempts |-> attempts,
              solvedEntries |-> solvedEntries,
              failedEntries |-> [failedEntries EXCEPT ![c.no] = TRUE],
              boardState    |-> boardState,
              activeEntryNo |-> activeEntryNo,
              katlaMessage  |-> MsgFailed]
        ELSE [entryAttempts |-> attempts,
              solvedEntries |-> solvedEntries,
              failedEntries |-> failedEntries,
              boardState    |-> boardState,
              activeEntryNo |-> activeEntryNo,
              katlaMessage  |-> Null]

\* the state submitGuess 525-556 leaves for a valid word, before the effect
acceptGuess(c) ==
    LET states         == evaluateGuess(c.guess, jawaban(c.no))
        guessResult    == [guess |-> c.guess, states |-> states]
        updatedGuesses == Append(c.katlaGuesses, guessResult)
        attempts       == [entryAttempts EXCEPT ![c.no] = updatedGuesses]
    IN  IF allCorrect(states)
        THEN LET m == handleMarkSolved(c.no, c.solvedEntries, c.failedEntries,
                                       c.boardState, failedEntries)
             IN  [entryAttempts |-> attempts,
                  solvedEntries |-> m.solvedEntries,
                  failedEntries |-> m.failedEntries,
                  boardState    |-> m.boardState,
                  activeEntryNo |-> NoEntry,
                  katlaMessage  |-> Null]
        ELSE IF Len(updatedGuesses) >= maxAttempts
        THEN [entryAttempts |-> attempts,
              solvedEntries |-> solvedEntries,
              failedEntries |-> [failedEntries EXCEPT ![c.no] = TRUE],
              boardState    |-> boardState,
              activeEntryNo |-> activeEntryNo,
              katlaMessage  |-> MsgFailed]
        ELSE [entryAttempts |-> attempts,
              solvedEntries |-> solvedEntries,
              failedEntries |-> failedEntries,
              boardState    |-> boardState,
              activeEntryNo |-> activeEntryNo,
              katlaMessage  |-> Null]

\* the scene after a render: a holds what the handler set, e what the restore
\* effect set after it
setScene(a, e) ==
    /\ entryAttempts' = a.entryAttempts
    /\ solvedEntries' = a.solvedEntries
    /\ failedEntries' = a.failedEntries
    /\ boardState' = a.boardState
    /\ activeEntryNo' = a.activeEntryNo
    /\ katlaGuesses' = e.katlaGuesses
    /\ currentGuess' = e.currentGuess
    /\ katlaMessage' = e.katlaMessage

\* the handler's state a, then the restore effect on it
renderWithEffect(a) ==
    setScene(a, restoreEffect(a.activeEntryNo, a.entryAttempts, a.solvedEntries,
                              a.failedEntries, a.katlaMessage))

\* the backend answers valid = true: submitGuess 525-556 and the restore effect
ResponseAccepted(c) ==
    /\ BagIn(c, inflight)
    /\ katlaCheck(c.guess, template.id, c.no).valid
    /\ inflight' = inflight (-) SetToBag({c})
    /\ renderWithEffect(acceptGuess(c))
    /\ accepted' = accepted + 1
    /\ UNCHANGED <<isDev, dailyPuzzle, call, ret>>

\* the dev-only "Tandai Selesai" button (868-876): handleMarkSolved of the
\* current render, handleCloseKatla, then the restore effect
DevMarkSolved ==
    /\ isDev
    /\ activeEntryNo # NoEntry
    /\ LET m == handleMarkSolved(activeEntryNo, solvedEntries, failedEntries,
                                 boardState, failedEntries)
       IN  renderWithEffect([entryAttempts |-> entryAttempts,
                             solvedEntries |-> m.solvedEntries,
                             failedEntries |-> m.failedEntries,
                             boardState    |-> m.boardState,
                             activeEntryNo |-> NoEntry,
                             katlaMessage  |-> Null])
    /\ UNCHANGED <<isDev, dailyPuzzle, inflight, accepted, call, ret>>

\* the steps of the production build
Next ==
    \/ \E id \in TemplateIds : LoadPuzzle(id)
    \/ LoadFail
    \/ \E row \in 0..1, col \in 0..1 : handleCellClick(row, col)
    \/ handleCloseKatla
    \/ \E letter \in Letters : KeyLetter(letter)
    \/ KeyBackspace
    \/ SubmitLengthMismatch
    \/ SubmitSend
    \/ \E c \in BagToSet(inflight) : ResponseFailed(c)
    \/ \E c \in BagToSet(inflight) : ResponseInvalid(c)
    \/ \E c \in BagToSet(inflight) : ResponseAccepted(c)

Spec == Init /\ [][Next]_vars

----
(* Narrower players of the same scene: every run of these is a run of Spec
   with larger bounds. *)

\* puzzle "3" alone: one request at a time
SeqNext ==
    \/ LoadPuzzle("3")
    \/ \E row \in 0..1, col \in 0..1 : handleCellClick(row, col)
    \/ handleCloseKatla
    \/ \E letter \in Letters : KeyLetter(letter)
    \/ KeyBackspace
    \/ SubmitLengthMismatch
    \/ SubmitSend
    \/ \E c \in BagToSet(inflight) : ResponseFailed(c)
    \/ \E c \in BagToSet(inflight) : ResponseInvalid(c)
    \/ \E c \in BagToSet(inflight) : ResponseAccepted(c)

SeqSpec == Init /\ [][SeqNext]_vars

\* the words the player of RaceSpec types: the answer of an across slot, any
\* dictionary word for a down slot
RaceWords ==
    IF findSlot(template, activeEntryNo).arah = "menurun"
    THEN KbbiBank[activeEntryLength]
    ELSE {jawaban(activeEntryNo)}

\* puzzle "2" alone, every request answered with a verdict
RaceNext ==
    \/ LoadPuzzle("2")
    \/ \E row \in 0..1, col \in 0..1 : handleCellClick(row, col)
    \/ \E letter \in Letters : KeyLetterOf(letter, RaceWords)
    \/ KeyBackspace
    \/ SubmitLengthMismatch
    \/ SubmitWithin(RaceInflight, RaceAccepted)
    \/ \E c \in BagToSet(inflight) : ResponseAccepted(c)

RaceSpec == Init /\ [][RaceNext]_vars

----
(* The pure functions, applied to inputs drawn from bounded sets *)

EvalLetters == {"A", "B", "C"}

\* all words of length n over EvalLetters
WordsOfLen(n) == [1..n -> EvalLetters]

\* the worked examples of the documentation, as <<guess, target>>
ExamplePairs ==
    { << <<"A", "A", "B", "B", "I">>, <<"A", "B", "A", "D", "I">> >>,
      << <<"R", "O", "M", "A", "N">>, <<"R", "U", "M", "A", "H">> >>,
      << <<"A", "T", "L", "A", "S">>, <<"T", "A", "N", "A", "H">> >> }

EvalCalls ==
    { [op |-> "evaluateGuess", guess |-> g, target |-> t] :
          <<g, t>> \in ExamplePairs \cup
                       UNION { WordsOfLen(n) \X WordsOfLen(n) : n \in 1..MaxWordLen } }

FnInit ==
    /\ isDev = FALSE
    /\ dailyPuzzle = "pending"
    /\ boardState = createEmptyBoard(NoTemplate)
    /\ solvedEntries = NoFlags
    /\ activeEntryNo = NoEntry
    /\ katlaGuesses = <<>>
    /\ currentGuess = <<>>
    /\ katlaMessage = Null
    /\ entryAttempts = NoAttempts
    /\ failedEntries = NoFlags
    /\ inflight = EmptyBag
    /\ accepted = 0
    /\ call \in EvalCalls
    /\ ret = NoRet

\* mutant: the working copy of the target outlives the call, so that a second
\* evaluation finds its letters already consumed
CallEvaluateGuessSharedBuffer ==
    /\ call.op = "evaluateGuess"
    /\ ~ret.done
    /\ ret' = [done |-> TRUE,
               value |-> IF "before" \in DOMAIN call /\ call.before.done
                         THEN evaluateGuessExactOnly(call.guess, call.target)
                         ELSE evaluateGuess(call.guess, call.target)]
    /\ UNCHANGED <<sceneVars, call>>

CallEvaluateGuess ==
    /\ call.op = "evaluateGuess"
    /\ ~ret.done
    /\ ret' = [done |-> TRUE, value |-> evaluateGuess(call.guess, call.target)]
    /\ UNCHANGED <<sceneVars, call>>

FnNext == CallEvaluateGuess

FnSpec == FnInit /\ [][FnNext]_vars

----
(* evaluateGuess called again and again while the scene of the one-slot
   puzzle is used *)

\* length of the words evaluated repeatedly
RepeatWordLen == 2

RepeatCalls ==
    ExamplePairs \cup (WordsOfLen(RepeatWordLen) \X WordsOfLen(RepeatWordLen))

NoBefore == [done |-> FALSE, guess |-> <<>>, target |-> <<>>, value |-> <<>>]

RepeatInit ==
    /\ isDev = FALSE
    /\ dailyPuzzle = "pending"
    /\ boardState = createEmptyBoard(NoTemplate)
    /\ solvedEntries = NoFlags
    /\ activeEntryNo = NoEntry
    /\ katlaGuesses = <<>>
    /\ currentGuess = <<>>
    /\ katlaMessage = Null
    /\ entryAttempts = NoAttempts
    /\ failedEntries = NoFlags
    /\ inflight = EmptyBag
    /\ accepted = 0
    /\ call \in { [op |-> "evaluateGuess", guess |-> p[1], target |-> p[2],
                    before |-> NoBefore] : p \in RepeatCalls }
    /\ ret = NoRet

\* the next evaluation, remembering the one just made or one made earlier
EvaluateAgain ==
    /\ call.op = "evaluateGuess"
    /\ ret.done
    /\ \E p \in RepeatCalls :
       \E remembered \in { call.before,
                            [done |-> TRUE, guess |-> call.guess,
                             target |-> call.target, value |-> ret.value] } :
           /\ remembered.done
           /\ call' = [op |-> "evaluateGuess", guess |-> p[1], target |-> p[2],
                       before |-> remembered]
    /\ ret' = NoRet
    /\ UNCHANGED sceneVars

RepeatNext ==
    \/ CallEvaluateGuess
    \/ EvaluateAgain
    \/ LoadPuzzle("0")
    \/ \E row \in 0..1, col \in 0..1 : handleCellClick(row, col)
    \/ handleCloseKatla
    \/ \E letter \in Letters : KeyLetter(letter)
    \/ KeyBackspace

RepeatSpec == RepeatInit /\ [][RepeatNext]_vars

----
(* POST /api/katla/check as a whole, backend index.ts:54-101 and 176-212:
   request validation, the cached loads and the response, for requests and
   server states drawn from bounded sets *)

Blank == " "

\* String.prototype.trim on a word that may carry blanks
RECURSIVE trimStart(_)
trimStart(w) == IF w # <<>> /\ Head(w) = Blank THEN trimStart(Tail(w)) ELSE w

RECURSIVE trimEnd(_)
trimEnd(w) ==
    IF w # <<>> /\ w[Len(w)] = Blank THEN trimEnd(SubSeq(w, 1, Len(w) - 1)) ELSE w

trim(w) == trimEnd(trimStart(w))

\* getPuzzleFiles (54-63): the puzzle files in sorted order, by template id
getPuzzleFiles == <<"0", "1", "2", "3", "4">>

NaN == [nan |-> TRUE, halves |-> 0]

\* Number(String(templateId)) on the ids of the model; the value is kept in
\* halves, so that 1.5 is 3 halves
NumberOf(text) ==
    CASE text = "0"   -> [nan |-> FALSE, halves |-> 0]
      [] text = "1"   -> [nan |-> FALSE, halves |-> 2]
      [] text = "2"   -> [nan |-> FALSE, halves |-> 4]
      [] text = "3"   -> [nan |-> FALSE, halves |-> 6]
      [] text = "4"   -> [nan |-> FALSE, halves |-> 8]
      [] text = "5"   -> [nan |-> FALSE, halves |-> 10]
      [] text = "-1"  -> [nan |-> FALSE, halves |-> -2]
      [] text = "1.5" -> [nan |-> FALSE, halves |-> 3]
      [] text = ""    -> [nan |-> FALSE, halves |-> 0]
      [] OTHER        -> NaN

\* the process state a request meets: what the caches hold and whether the
\* files can be read
ServerStates ==
    { sv \in [puzzleFilesCache : BOOLEAN, puzzleTemplateCache : BOOLEAN,
              kbbiBankCache : BOOLEAN, dirReadable : BOOLEAN,
              puzzleReadable : BOOLEAN, kbbiReadable : BOOLEAN] :
          sv.puzzleTemplateCache => sv.puzzleFilesCache }

\* loadPuzzleTemplateById (64-75): null, a template, or an exception of
\* readdirSync, path.join, readFileSync or JSON.parse
loadPuzzleTemplateById(templateId, sv) ==
    LET index == NumberOf(templateId)
        files == getPuzzleFiles
    IN  IF ~sv.puzzleFilesCache /\ ~sv.dirReadable
        THEN [kind |-> "throw", server |-> sv]
        ELSE LET sv1 == [sv EXCEPT !.puzzleFilesCache = TRUE]
             IN  IF index.nan \/ index.halves < 0 \/ index.halves >= 2 * Len(files)
                 THEN [kind |-> "null", server |-> sv1]
                 ELSE IF index.halves % 2 # 0
                 THEN [kind |-> "throw", server |-> sv1]
                 ELSE IF ~sv1.puzzleTemplateCache /\ ~sv1.puzzleReadable
                 THEN [kind |-> "throw", server |-> sv1]
                 ELSE [kind |-> "template",
                       value |-> PuzzleFiles[files[(index.halves \div 2) + 1]],
                       server |-> [sv1 EXCEPT !.puzzleTemplateCache = TRUE]]

\* getKbbiBank (77-101): the cached bank, the bank built from the file, or an
\* exception of readFileSync or JSON.parse
getKbbiBank(sv) ==
    IF sv.kbbiBankCache \/ sv.kbbiReadable
    THEN [kind |-> "bank", value |-> KbbiBank,
          server |-> [sv EXCEPT !.kbbiBankCache = TRUE]]
    ELSE [kind |-> "throw", server |-> sv]

BadRequest(message, sv) ==
    [status |-> 400, body |-> [error |-> message], server |-> sv]

ServerError(sv) ==
    [status |-> 500, body |-> [error |-> "Failed to validate guess"], server |-> sv]

\* mutant: the guess keeps the letter case it was sent in
normalizeGuessTrimOnly(word) == trim(word)

\* line 192: word.trim().toUpperCase()
normalizeGuess(word) == toUpperCase(trim(word))

\* lines 194-195: the bucket of the guess's length, then membership
katlaLookup(guess, bank) ==
    IF Len(guess) \in DOMAIN bank THEN guess \in bank[Len(guess)] ELSE FALSE

\* mutant: the guess is compared with the answer after slotNo
katlaMatchNextSlot(guess, tpl, slotNo) ==
    /\ tpl.kind = "template"
    /\ slotNo < Len(tpl.value.answers)
    /\ guess = toUpperCase(trim(tpl.value.answers[slotNo + 1].word))

\* lines 197-204: the guess against answers[slotNo - 1] of the template
katlaMatch(guess, tpl, slotNo) ==
    /\ tpl.kind = "template"
    /\ slotNo - 1 < Len(tpl.value.answers)
    /\ guess = toUpperCase(trim(tpl.value.answers[slotNo].word))

\* the handler (176-212): the response and the server state it leaves
postKatlaCheck(body, sv) ==
    IF body.word.type # "string" \/ trim(body.word.chars) = <<>>
    THEN BadRequest("Word is required", sv)
    ELSE IF body.slotNo.type # "number" \/ ~body.slotNo.integer \/ body.slotNo.value < 1
    THEN BadRequest("slotNo must be a positive integer", sv)
    ELSE IF body.templateId.type \in {"undefined", "null"}
    THEN BadRequest("templateId is required", sv)
    ELSE LET guess == normalizeGuess(body.word.chars)
             bank  == getKbbiBank(sv)
         IN  IF bank.kind = "throw" THEN ServerError(bank.server)
             ELSE LET tpl == loadPuzzleTemplateById(body.templateId.text, bank.server)
                  IN  IF tpl.kind = "throw" THEN ServerError(tpl.server)
                      ELSE [status |-> 200,
                            body   |-> [valid   |-> katlaLookup(guess, bank.value),
                                        correct |-> katlaMatch(guess, tpl,
                                                               body.slotNo.value)],
                            server |-> tpl.server]

\* request fields: absent, of the wrong type, blank, mixed case, padded
ApiLetters == {"a", "B", Blank}

ApiWords ==
    { [type |-> "undefined", chars |-> <<>>], [type |-> "number", chars |-> <<>>] }
        \cup { [type |-> "string", chars |-> w] :
                   w \in UNION { [1..n -> ApiLetters] : n \in 0..MaxWordLen } }

ApiSlotNos ==
    { [type |-> "undefined", integer |-> FALSE, value |-> 0],
      [type |-> "string", integer |-> FALSE, value |-> 1],
      [type |-> "number", integer |-> FALSE, value |-> 1] }
        \cup { [type |-> "number", integer |-> TRUE, value |-> v] : v \in -1..3 }

ApiTemplateIds ==
    { [type |-> "undefined", text |-> ""], [type |-> "null", text |-> ""] }
        \cup { [type |-> "string", text |-> t] : t \in {"0", "2", "4", "5", "-1", "abc", "1.5", ""} }
        \cup { [type |-> "number", text |-> t] : t \in {"1", "3"} }

ApiCalls ==
    { [op |-> "katlaCheck",
       body |-> [word |-> w, slotNo |-> n, templateId |-> t],
       server |-> sv] :
          w \in ApiWords, n \in ApiSlotNos, t \in ApiTemplateIds, sv \in ServerStates }

ApiInit ==
    /\ isDev = FALSE
    /\ dailyPuzzle = "pending"
    /\ boardState = createEmptyBoard(NoTemplate)
    /\ solvedEntries = NoFlags
    /\ activeEntryNo = NoEntry
    /\ katlaGuesses = <<>>
    /\ currentGuess = <<>>
    /\ katlaMessage = Null
    /\ entryAttempts = NoAttempts
    /\ failedEntries = NoFlags
    /\ inflight = EmptyBag
    /\ accepted = 0
    /\ call \in ApiCalls
    /\ ret = NoRet

HandleKatlaCheck ==
    /\ call.op = "katlaCheck"
    /\ ~ret.done
    /\ LET response == postKatlaCheck(call.body, call.server)
       IN  ret' = [done   |-> TRUE,
                   value  |-> [status |-> response.status, body |-> response.body],
                   server |-> response.server]
    /\ UNCHANGED <<sceneVars, call>>

ApiNext == HandleKatlaCheck

ApiSpec == ApiInit /\ [][ApiNext]_vars

----
(* The alternate scene that plays each word in a modal dialog
   (unnamed/part_000): WordleModal with its own evaluateGuess, and the
   MainScene that keeps activeWord, solvedWords and progressByWord.  The
   scene lives in ret; its puzzle, call.template_id, stands for the mapping
   entry of the day with the template and the answer set it names. *)

MAX_ATTEMPTS == 6

\* Array.prototype.indexOf on answerChars: 1-based, 0 when not found
indexOf(arr, x) == FindIndexFrom(arr, x, 1)

\* guess[index] of a string: undefined past its end
charAt(w, index) == IF index <= Len(w) THEN w[index] ELSE "undefined"

\* first loop of the modal's evaluateGuess (36-41)
RECURSIVE modalPass1(_, _, _, _, _)
modalPass1(normalizedGuess, normalizedAnswer, index, statuses, answerChars) ==
    IF index > Len(normalizedAnswer)
    THEN [statuses |-> statuses, answerChars |-> answerChars]
    ELSE IF charAt(normalizedGuess, index) = normalizedAnswer[index]
         THEN modalPass1(normalizedGuess, normalizedAnswer, index + 1,
                         [statuses EXCEPT ![index] = "correct"],
                         [answerChars EXCEPT ![index] = ""])
         ELSE modalPass1(normalizedGuess, normalizedAnswer, index + 1,
                         statuses, answerChars)

\* mutant: a hit of the second loop blanks the letter at the guess's own
\* position instead of the one it found
RECURSIVE modalPass2OwnIndex(_, _, _, _, _)
modalPass2OwnIndex(normalizedGuess, normalizedAnswer, index, statuses, answerChars) ==
    IF index > Len(normalizedAnswer) THEN statuses
    ELSE IF statuses[index] = "correct"
         THEN modalPass2OwnIndex(normalizedGuess, normalizedAnswer, index + 1,
                                 statuses, answerChars)
         ELSE LET letter      == charAt(normalizedGuess, index)
                  letterIndex == indexOf(answerChars, letter)
              IN  IF letterIndex # 0
                  THEN modalPass2OwnIndex(normalizedGuess, normalizedAnswer, index + 1,
                                          [statuses EXCEPT ![index] = "present"],
                                          [answerChars EXCEPT ![index] = ""])
                  ELSE modalPass2OwnIndex(normalizedGuess, normalizedAnswer, index + 1,
                                          statuses, answerChars)

\* second loop of the modal's evaluateGuess (43-51)
RECURSIVE modalPass2(_, _, _, _, _)
modalPass2(normalizedGuess, normalizedAnswer, index, statuses, answerChars) ==
    IF index > Len(normalizedAnswer) THEN statuses
    ELSE IF statuses[index] = "correct"
         THEN modalPass2(normalizedGuess, normalizedAnswer, index + 1,
                         statuses, answerChars)
         ELSE LET letter      == charAt(normalizedGuess, index)
                  letterIndex == indexOf(answerChars, letter)
              IN  IF letterIndex # 0
                  THEN modalPass2(normalizedGuess, normalizedAnswer, index + 1,
                                  [statuses EXCEPT ![index] = "present"],
                                  [answerChars EXCEPT ![letterIndex] = ""])
                  ELSE modalPass2(normalizedGuess, normalizedAnswer, index + 1,
                                  statuses, answerChars)

\* evaluateGuess of the modal scene (30-54)
modalEvaluateGuess(guess, answer) ==
    LET normalizedGuess  == toUpperCase(guess)
        normalizedAnswer == toUpperCase(answer)
        statuses == [index \in 1..Len(normalizedAnswer) |-> "absent"]
        p1 == modalPass1(normalizedGuess, normalizedAnswer, 1, statuses,
                         normalizedAnswer)
    IN  modalPass2(normalizedGuess, normalizedAnswer, 1, p1.statuses, p1.answerChars)

MsgModalLength == "Tebakan harus n huruf."
MsgModalFailed == "Kesempatan habis. Jawaban yang dicari: x."

\* the mapping entries of the stand-in data: one per puzzle shown in the modal
\* scene
ModalTemplateIds == {"0", "1", "3"}

\* what the player puts into the input: a word's letters, in either case, a
\* part of them, or a letter followed by a blank
ModalInputs ==
    { <<>>, <<"A">>, <<"b">>, <<"A", "B">>, <<"a", "b">>, <<"B", "A">>,
      <<"A", Blank>> }

\* progressByWord[no] ?? { rows: [], isFailed: false } (324-326)
NoProgress == [rows |-> <<>>, isFailed |-> FALSE]

modalTemplate == templates[call.template_id]

\* answersByWordNumber (285-288)
answersByWordNumber ==
    [no \in { jawabanHarian[call.template_id][i].no :
                 i \in 1..Len(jawabanHarian[call.template_id]) } |->
        LET entries == jawabanHarian[call.template_id]
        IN  toUpperCase(entries[CHOOSE i \in 1..Len(entries) : entries[i].no = no].jawaban)]

\* the modal is rendered (362)
modalOpen == ret.activeWord # NoEntry /\ ret.activeWord \in DOMAIN answersByWordNumber

activeAnswer == answersByWordNumber[ret.activeWord]

activeProgress == ret.progressByWord[ret.activeWord]

\* isSolved of the modal (85)
isSolved(rows, answer) ==
    \E k \in 1..Len(rows) : toUpperCase(rows[k].guess) = toUpperCase(answer)

\* startNumbers of CrosswordBoard (204-210): the last word starting on a cell
startNumber(tpl, row, col) ==
    LET at == { i \in 1..Len(tpl.words) : tpl.words[i].start = <<row, col>> }
    IN  IF at = {} THEN NoEntry
        ELSE tpl.words[CHOOSE i \in at : \A j \in at : j <= i].no

ModalInit ==
    /\ isDev = FALSE
    /\ dailyPuzzle = "pending"
    /\ boardState = createEmptyBoard(NoTemplate)
    /\ solvedEntries = NoFlags
    /\ activeEntryNo = NoEntry
    /\ katlaGuesses = <<>>
    /\ currentGuess = <<>>
    /\ katlaMessage = Null
    /\ entryAttempts = NoAttempts
    /\ failedEntries = NoFlags
    /\ inflight = EmptyBag
    /\ accepted = 0
    /\ call \in { [op |-> "WordleModal", template_id |-> id] : id \in ModalTemplateIds }
    /\ ret = [done |-> FALSE, value |-> <<>>,
              activeWord     |-> NoEntry,
              solvedWords    |-> [no \in SlotNos |-> <<>>],
              progressByWord |-> [no \in SlotNos |-> NoProgress],
              currentGuess   |-> <<>>,
              message        |-> Null]

\* a click on the number button of a cell (247-260), then handleWordSelect
handleWordSelect(row, col) ==
    LET wordNumber == startNumber(modalTemplate, row, col)
    IN  /\ call.op = "WordleModal"
        /\ wordNumber # NoEntry
        /\ ret.solvedWords[wordNumber] = <<>>
        /\ hasSlot(modalTemplate, wordNumber)
        /\ ret' = [ret EXCEPT !.activeWord = wordNumber]
        /\ UNCHANGED <<sceneVars, call>>

\* onChange of the input (164-173), enabled while the word is open
ModalChange(value) ==
    /\ call.op = "WordleModal"
    /\ modalOpen
    /\ ~(isSolved(activeProgress.rows, activeAnswer) \/ activeProgress.isFailed)
    /\ Len(value) <= Len(activeAnswer)
    /\ ret' = [ret EXCEPT !.currentGuess = toUpperCase(value)]
    /\ UNCHANGED <<sceneVars, call>>

\* mutant: the sixth row marks the word failed whatever it holds
handleSubmitSixthFails(rows, isFailed, guess, answer) ==
    LET trimmedGuess == toUpperCase(trim(guess))
        statuses     == modalEvaluateGuess(trimmedGuess, answer)
        nextRows     == Append(rows, [guess |-> trimmedGuess, statuses |-> statuses])
        solved       == trimmedGuess = toUpperCase(answer)
        failed       == Len(nextRows) >= MAX_ATTEMPTS
    IN  IF isSolved(rows, answer) \/ isFailed
        THEN [ret EXCEPT !.done = FALSE]
        ELSE IF Len(trimmedGuess) # Len(answer)
        THEN [ret EXCEPT !.message = MsgModalLength]
        ELSE [ret EXCEPT
                 !.progressByWord[ret.activeWord] = [rows |-> nextRows, isFailed |-> failed],
                 !.currentGuess = <<>>,
                 !.message = IF failed /\ ~solved THEN MsgModalFailed ELSE Null,
                 !.solvedWords[ret.activeWord] = IF solved THEN trimmedGuess ELSE @,
                 !.activeWord = IF solved THEN NoEntry ELSE @]

\* handleSubmit of the modal (90-117) with onProgress (315-317) and onSolved
\* (309-313), for the props of the current render
handleSubmit(rows, isFailed, guess, answer) ==
    LET trimmedGuess == toUpperCase(trim(guess))
        statuses     == modalEvaluateGuess(trimmedGuess, answer)
        nextRows     == Append(rows, [guess |-> trimmedGuess, statuses |-> statuses])
        solved       == trimmedGuess = toUpperCase(answer)
        failed       == ~solved /\ Len(nextRows) >= MAX_ATTEMPTS
    IN  IF isSolved(rows, answer) \/ isFailed
        THEN [ret EXCEPT !.done = FALSE]
        ELSE IF Len(trimmedGuess) # Len(answer)
        THEN [ret EXCEPT !.message = MsgModalLength]
        ELSE [ret EXCEPT
                 !.progressByWord[ret.activeWord] = [rows |-> nextRows, isFailed |-> failed],
                 !.currentGuess = <<>>,
                 !.message = IF failed THEN MsgModalFailed ELSE Null,
                 !.solvedWords[ret.activeWord] = IF solved THEN trimmedGuess ELSE @,
                 !.activeWord = IF solved THEN NoEntry ELSE @]

\* the form is submitted
ModalSubmit ==
    /\ call.op = "WordleModal"
    /\ modalOpen
    /\ ret' = handleSubmit(activeProgress.rows, activeProgress.isFailed,
                           ret.currentGuess, activeAnswer)
    /\ UNCHANGED <<sceneVars, call>>

\* handleClose of the modal (119-123) with handleCloseModal (305-307)
handleClose ==
    /\ call.op = "WordleModal"
    /\ modalOpen
    /\ ret' = [ret EXCEPT !.currentGuess = <<>>, !.message = Null,
                          !.activeWord = NoEntry]
    /\ UNCHANGED <<sceneVars, call>>

ModalNext ==
    \/ \E row \in 0..1, col \in 0..1 : handleWordSelect(row, col)
    \/ \E value \in ModalInputs : ModalChange(value)
    \/ ModalSubmit
    \/ handleClose

ModalSpec == ModalInit /\ [][ModalNext]_vars

----
(* fillWordOnBoard called on arrays that live on a heap: a board is a list
   of references to its rows, heap[ref] is the row an array reference points
   to.  The caller keeps its references, so what the call does to the rows it
   was given shows in the caller's board afterwards. *)

\* the letters a board or an answer of this specification holds
FillLetters == {"A", "B"}

\* the boards handed to fillWordOnBoard: no rows (the board before the load
\* effect has run), one row, or two rows of two cells
FillBoards ==
    { <<>> } \cup [1..1 -> [1..2 -> {""} \cup FillLetters]]
             \cup [1..2 -> [1..2 -> {"", "A"}]]

\* slot numbers asked for: none of the template, or one it may hold
FillWordNos == 0..3

FillCalls ==
    { [op |-> "fillWordOnBoard", board |-> b, template_id |-> id,
       wordNo |-> n, answer |-> a] :
          b \in FillBoards, id \in TemplateIds, n \in FillWordNos,
          a \in [1..2 -> FillLetters] }

FillInit ==
    /\ isDev = FALSE
    /\ dailyPuzzle = "pending"
    /\ boardState = createEmptyBoard(NoTemplate)
    /\ solvedEntries = NoFlags
    /\ activeEntryNo = NoEntry
    /\ katlaGuesses = <<>>
    /\ currentGuess = <<>>
    /\ katlaMessage = Null
    /\ entryAttempts = NoAttempts
    /\ failedEntries = NoFlags
    /\ inflight = EmptyBag
    /\ accepted = 0
    /\ call \in FillCalls
    /\ ret = NoRet

\* the board a list of row references stands for
deref(heap, refs) == [r \in 1..Len(refs) |-> heap[refs[r]]]

\* mutant: board.map((row) => row), the new board shares the rows of the old
mapRowsShared(heap, board) == [heap |-> heap, newBoard |-> board]

\* board.map((row) => [...row]) (451): a new list of new rows
mapRowsCopied(heap, board) ==
    [heap     |-> heap \o [r \in 1..Len(board) |-> heap[board[r]]],
     newBoard |-> [r \in 1..Len(board) |-> Len(heap) + r]]

\* the loop of fillWordOnBoard (453-461) writing through the row references
RECURSIVE fillCharsOnHeap(_, _, _, _, _)
fillCharsOnHeap(heap, newBoard, slot, chars, i) ==
    IF i >= Len(chars) THEN heap
    ELSE LET rc  == slotCell(slot, i)
             row == rc[1]
             col == rc[2]
         IN  IF inBoard(deref(heap, newBoard), row, col)
             THEN fillCharsOnHeap(
                      [heap EXCEPT ![newBoard[row + 1]][col + 1] = chars[i + 1]],
                      newBoard, slot, chars, i + 1)
             ELSE fillCharsOnHeap(heap, newBoard, slot, chars, i + 1)

\* fillWordOnBoard (441-464) on the heap: the heap it leaves and the board it
\* returns
fillWordOnBoardOnHeap(heap, board, tpl, wordNo, answer) ==
    IF ~hasSlot(tpl, wordNo) THEN [heap |-> heap, board |-> board]
    ELSE LET copied == mapRowsCopied(heap, board)
         IN  [heap  |-> fillCharsOnHeap(copied.heap, copied.newBoard,
                                        findSlot(tpl, wordNo), answer, 0),
              board |-> copied.newBoard]

\* the call: the caller's board is stored row by row, the function runs, and
\* the caller reads the returned board and its own board again
CallFillWordOnBoard ==
    /\ call.op = "fillWordOnBoard"
    /\ ~ret.done
    /\ LET heap  == call.board
           board == [r \in 1..Len(call.board) |-> r]
           out   == fillWordOnBoardOnHeap(heap, board, templates[call.template_id],
                                          call.wordNo, call.answer)
       IN  ret' = [done  |-> TRUE,
                   value |-> deref(out.heap, out.board),
                   board |-> deref(out.heap, board),
                   same  |-> out.board = board]
    /\ UNCHANGED <<sceneVars, call>>

FillNext == CallFillWordOnBoard

FillSpec == FillInit /\ [][FillNext]_vars

----
(* computeKeyboardState on the guesses of one slot as they are recorded:
   submitGuess evaluates each guess against the slot's word, appends it and
   recomputes the key statuses from the whole list (525-538) *)

MaxKeyGuesses == 3

KeyWords == WordsOfLen(RepeatWordLen)

KeyInit ==
    /\ isDev = FALSE
    /\ dailyPuzzle = "pending"
    /\ boardState = createEmptyBoard(NoTemplate)
    /\ solvedEntries = NoFlags
    /\ activeEntryNo = NoEntry
    /\ katlaGuesses = <<>>
    /\ currentGuess = <<>>
    /\ katlaMessage = Null
    /\ entryAttempts = NoAttempts
    /\ failedEntries = NoFlags
    /\ inflight = EmptyBag
    /\ accepted = 0
    /\ call \in { [op |-> "computeKeyboardState", target |-> t, guesses |-> <<>>] :
                     t \in KeyWords }
    /\ ret = [done |-> TRUE, value |-> computeKeyboardState(<<>>)]

\* a guess is recorded and the key statuses are computed from the new list
RecordGuess(guess) ==
    /\ call.op = "computeKeyboardState"
    /\ Len(call.guesses) < MaxKeyGuesses
    /\ LET states         == evaluateGuess(guess, call.target)
           updatedGuesses == Append(call.guesses, [guess |-> guess, states |-> states])
       IN  /\ call' = [call EXCEPT !.guesses = updatedGuesses]
           /\ ret' = [done |-> TRUE, value |-> computeKeyboardState(updatedGuesses)]
    /\ UNCHANGED sceneVars

KeyNext == \E guess \in KeyWords : RecordGuess(guess)

KeySpec == KeyInit /\ [][KeyNext]_vars

----
(* The puzzle of the day from the date string, gameData.ts:187-199 and 393-427.
   A JavaScript number holds the 32-bit hash exactly; here it is kept as two
   16-bit halves, value = hi * TwoTo16 + lo, so that no intermediate product
   leaves the range of the model checker's integers *)

TwoTo16 == 65536

DateDigits == <<"0", "1", "2", "3", "4", "5", "6", "7", "8", "9">>

\* dateStr.charCodeAt(i) for the characters of the date strings drawn
charCodeAt(ch) ==
    IF ch = "-" THEN 45
    ELSE IF ch = "a" THEN 97
    ELSE 47 + indexOf(DateDigits, ch)

\* mutant: the hash is kept four bits wider than the 32 of >>> 0
hashStepWide(h, code) ==
    LET t == h.lo * 31 + code
    IN  [hi |-> (h.hi * 31 + t \div TwoTo16) % (16 * TwoTo16),
         lo |-> t % TwoTo16]

\* h = (h * 31 + dateStr.charCodeAt(i)) >>> 0 (gameData.ts:190)
hashStep(h, code) ==
    LET t == h.lo * 31 + code
    IN  [hi |-> (h.hi * 31 + t \div TwoTo16) % TwoTo16,
         lo |-> t % TwoTo16]

RECURSIVE seedFromDate(_)
\* seedFromDate(dateStr) (gameData.ts:187-193)
seedFromDate(dateStr) ==
    IF Len(dateStr) = 0 THEN [hi |-> 0, lo |-> 0]
    ELSE hashStep(seedFromDate(SubSeq(dateStr, 1, Len(dateStr) - 1)),
                  charCodeAt(dateStr[Len(dateStr)]))

\* seed + offset for an offset >= 0: a JavaScript number does not wrap here
plusOffset(seed, offset) ==
    LET t == seed.lo + offset
    IN  [hi |-> seed.hi + t \div TwoTo16, lo |-> t % TwoTo16]

\* Math.abs(n) % length for n >= 0
remainder(n, length) ==
    ((n.hi % length) * (TwoTo16 % length) + (n.lo % length)) % length

\* pickFromArray(arr, seed, offset) (gameData.ts:195-199); idx counts from 0
pickFromArray(arr, seed, offset) ==
    IF Len(arr) = 0 THEN [isNull |-> TRUE]
    ELSE LET idx == remainder(plusOffset(seed, offset), Len(arr))
         IN  [isNull |-> FALSE, idx |-> idx, item |-> arr[idx + 1]]

NoDaily == [isNull |-> TRUE]

\* getDailyPuzzle(dateStr) (gameData.ts:393-427) on the template list fetched
dailyPuzzleOf(dateStr, tpls) ==
    IF Len(tpls) = 0 THEN NoDaily
    ELSE LET seed     == seedFromDate(dateStr)
             picked   == pickFromArray(tpls, seed, 0)
         IN  IF picked.isNull THEN NoDaily
             ELSE [isNull         |-> FALSE,
                   date           |-> dateStr,
                   seed           |-> seed,
                   idx            |-> picked.idx,
                   template_id    |-> picked.item.id,
                   jawaban_harian |-> jawabanHarian[picked.item.id]]

SeedMonths == { <<"0", "1">>, <<"1", "1">> }

SeedDays == { <<"0", d>> : d \in {"1", "2", "3", "4", "5", "6", "7", "8", "9"} }
            \cup { <<"1", "0">>, <<"2", "8">> }

\* date strings: getTodayISO() gives yyyy-mm-dd; a caller may pass any string
DateStrs ==
    { <<>>, <<"a">>, <<"2", "0", "2", "6">> }
    \cup { <<"2", "0", "2", "6", "-">> \o m \o <<"-">> \o d :
              m \in SeedMonths, d \in SeedDays }

\* template lists getTtsTemplates can resolve with: the first k templates
TemplateLists ==
    { [k \in 1..n |-> templates[PuzzleOrder[k]]] : n \in 0..Len(PuzzleOrder) }

NoEarlier == [done |-> FALSE]

SeedInit ==
    /\ isDev = FALSE
    /\ dailyPuzzle = "pending"
    /\ boardState = createEmptyBoard(NoTemplate)
    /\ solvedEntries = NoFlags
    /\ activeEntryNo = NoEntry
    /\ katlaGuesses = <<>>
    /\ currentGuess = <<>>
    /\ katlaMessage = Null
    /\ entryAttempts = NoAttempts
    /\ failedEntries = NoFlags
    /\ inflight = EmptyBag
    /\ accepted = 0
    /\ call \in { [op |-> "getDailyPuzzle", dateStr |-> d, templates |-> l,
                   before |-> NoEarlier] :
                     d \in DateStrs, l \in TemplateLists }
    /\ ret = [done |-> FALSE]

\* getDailyPuzzle(dateStr) resolves
CallGetDailyPuzzle ==
    /\ call.op = "getDailyPuzzle"
    /\ ~ret.done
    /\ ret' = [done |-> TRUE, value |-> dailyPuzzleOf(call.dateStr, call.templates)]
    /\ UNCHANGED <<sceneVars, call>>

\* a later call with the same date string and template list; the earlier
\* result is kept in call.before
GetDailyPuzzleAgain ==
    /\ call.op = "getDailyPuzzle"
    /\ ret.done
    /\ ~call.before.done
    /\ call' = [call EXCEPT !.before = [done |-> TRUE, value |-> ret.value]]
    /\ ret' = [done |-> TRUE, value |-> dailyPuzzleOf(call.dateStr, call.templates)]
    /\ UNCHANGED sceneVars

SeedNext ==
    \/ CallGetDailyPuzzle
    \/ GetDailyPuzzleAgain

SeedSpec == SeedInit /\ [][SeedNext]_vars

----
(* Either scene: the one MainScene/index.tsx mounts, or the modal scene *)

ScenesInit == Init \/ ModalInit

ScenesNext ==
    \/ call.op = "none" /\ Next
    \/ call.op = "WordleModal" /\ ModalNext

ScenesSpec == ScenesInit /\ [][ScenesNext]_vars

----
(* Claims *)

evaluated == call.op = "evaluateGuess" /\ ret.done

occurrences(w, ch) == Cardinality({ i \in 1..Len(w) : w[i] = ch })

\* C1: for a guess and a target of equal length, evaluateGuess marks position i
\* correct exactly when the letters at i agree, and for every letter the number
\* of its positions in the guess marked correct or present is at most the
\* number of its occurrences in the target.
C1_CorrectIffEqualAndCountBound ==
    evaluated =>
        /\ Len(ret.value) = Len(call.target)
        /\ \A i \in 1..Len(call.guess) :
               (ret.value[i] = "correct") <=> (call.guess[i] = call.target[i])
        /\ \A i \in 1..Len(call.guess) :
               ret.value[i] \in {"correct", "present", "absent"}
        /\ \A ch \in { call.guess[i] : i \in 1..Len(call.guess) } :
               Cardinality({ i \in 1..Len(call.guess) :
                                 /\ call.guess[i] = ch
                                 /\ ret.value[i] \in {"correct", "present"} })
                   <= occurrences(call.target, ch)

\* a guess holding a letter twice outside its place, the target holding it
\* once: the first is present, the second absent
C1_Witness ==
    /\ evaluated
    /\ \E i, j \in 1..Len(call.guess) :
           /\ i < j
           /\ call.guess[i] = call.guess[j]
           /\ ret.value[i] = "present"
           /\ ret.value[j] = "absent"
           /\ occurrences(call.target, call.guess[i]) = 1

isAbadiCall ==
    /\ call.op = "evaluateGuess"
    /\ call.guess = <<"A", "A", "B", "B", "I">>
    /\ call.target = <<"A", "B", "A", "D", "I">>

\* C2 as stated: target ABADI, guess AABBI gives correct, absent, absent,
\* absent, correct.
C2_AsStated ==
    (isAbadiCall /\ ret.done) =>
        ret.value = <<"correct", "absent", "absent", "absent", "correct">>

\* C2 as amended: target ABADI, guess AABBI gives correct, present, present,
\* absent, correct. ABADI holds A twice: the A at position 0 is matched in
\* place, the A at position 1 takes the target's other A, the first B takes
\* the target's B and the second B finds none left.
C2_AbadiExample ==
    (isAbadiCall /\ ret.done) =>
        ret.value = <<"correct", "present", "present", "absent", "correct">>

C2_Witness == isAbadiCall /\ ret.done

----
(* Claims about the scene *)

hasFullyCorrect(guesses) == \E k \in 1..Len(guesses) : allCorrect(guesses[k].states)

\* C3: in every reachable state every slot has at most 6 recorded attempts,
\* also when several submits were issued before the first response arrived.
C3_AtMostMaxAttempts ==
    \A no \in SlotNos : Len(entryAttempts[no]) <= maxAttempts

\* a slot holds 6 attempts while another submit for it still awaits its response
C3_Witness ==
    \E no \in SlotNos :
        /\ Len(entryAttempts[no]) = maxAttempts
        /\ \E c \in BagToSet(inflight) : c.no = no

\* C4: a slot is failed exactly when it has 6 recorded attempts none of which
\* is fully correct.
C4_FailedIffSixWrong ==
    \A no \in SlotNos :
        failedEntries[no] <=>
            (Len(entryAttempts[no]) = maxAttempts /\ ~hasFullyCorrect(entryAttempts[no]))

\* C5: once a slot is solved or failed its attempt sequence never changes.
C5_TerminalAttemptsFrozen ==
    [][\A no \in SlotNos :
           (solvedEntries[no] \/ failedEntries[no])
               => entryAttempts'[no] = entryAttempts[no]]_vars

\* C6: once a slot is solved it stays solved.
C6_SolvedStaysSolved ==
    [][\A no \in SlotNos : solvedEntries[no] => solvedEntries'[no]]_vars

\* C7: once a slot is failed it stays failed and does not become solved.
C7_FailedStaysFailed ==
    [][\A no \in SlotNos :
           failedEntries[no] => (failedEntries'[no] /\ ~solvedEntries'[no])]_vars

\* C8: a slot's attempt sequence is append-only: every recorded guess stays at
\* its index with its feedback.
C8_AttemptsAppendOnly ==
    [][\A no \in SlotNos :
           /\ Len(entryAttempts'[no]) >= Len(entryAttempts[no])
           /\ \A k \in 1..Len(entryAttempts[no]) :
                  entryAttempts'[no][k] = entryAttempts[no][k]]_vars

\* C9: the response to a guess the dictionary check reports as not valid
\* leaves the attempts, the solved flags, the failed flags and the board as
\* they were.
C9_InvalidWordNotRecorded ==
    [][\A c \in BagToSet(inflight) :
           (/\ inflight' = inflight (-) SetToBag({c})
            /\ ~katlaCheck(c.guess, template.id, c.no).valid)
               => UNCHANGED <<entryAttempts, solvedEntries, failedEntries, boardState>>]_vars

\* the invalid-word message is shown for a slot that has attempts recorded
\* and budget left
C9_Witness ==
    /\ katlaMessage = MsgInvalid
    /\ activeEntryNo # NoEntry
    /\ Len(entryAttempts[activeEntryNo]) > 0
    /\ Len(entryAttempts[activeEntryNo]) < maxAttempts
    /\ ~failedEntries[activeEntryNo]

\* C10: when the validation request fails, attempts, solved flags, failed
\* flags, the board and the typed guess are unchanged.
C10_FetchFailureChangesNothing ==
    [][(/\ katlaMessage' = MsgFetch
        /\ BagCardinality(inflight') < BagCardinality(inflight))
           => UNCHANGED <<entryAttempts, solvedEntries, failedEntries, boardState,
                          currentGuess, activeEntryNo, katlaGuesses>>]_vars

\* the failure message is shown and the typed guess can be sent again
C10_Witness ==
    /\ katlaMessage = MsgFetch
    /\ keyboardAccepts
    /\ Len(currentGuess) = activeEntryLength
    /\ inflight = EmptyBag

----
(* Claims about propagation, the board and the panel *)

\* the cells of slot no hold, on board, the letters of its word
spelled(no, board) ==
    /\ hasSlot(template, no)
    /\ LET w == wordFromBoard(board, findSlot(template, no), 0, <<>>)
       IN  w.allFilled /\ w.word = jawaban(no)

\* slot no covers cell <<row, col>> (0-based) with letter
coversWith(no, row, col, letter) ==
    /\ hasSlot(template, no)
    /\ \E i \in 0..(findSlot(template, no).length - 1) :
           /\ slotCell(findSlot(template, no), i) = <<row, col>>
           /\ jawaban(no)[i + 1] = letter

\* C11: after any step in which a slot becomes solved, no slot that is
\* neither solved nor failed has all its cells spelling its word.
C11_PropagationFixedPoint ==
    [][(\E no \in SlotNos : ~solvedEntries[no] /\ solvedEntries'[no])
           => \A e \in entryNos :
                  (~solvedEntries'[e] /\ ~failedEntries'[e]) => ~spelled(e, boardState')]_vars

C13_BoardLettersPersist ==
    [][(dailyPuzzle \in TemplateIds)
           => \A r \in 1..Len(boardState) : \A c \in 1..Len(boardState[r]) :
                  (boardState[r][c] # "" => boardState'[r][c] = boardState[r][c])
      ]_vars

remainingAfterExact(guess, target) ==
    [l \in {target[i] : i \in 1..Len(target)} |->
        Cardinality({i \in 1..Len(target) : target[i] = l /\ guess[i] # target[i]})]

\* the second pass of the reference over positions i.., rem the remaining counts
RECURSIVE referencePass2(_, _, _, _, _)
referencePass2(guess, target, i, rem, out) ==
    IF i > Len(guess) THEN out
    ELSE IF guess[i] = target[i]
         THEN referencePass2(guess, target, i + 1, rem, Append(out, "correct"))
         ELSE IF guess[i] \in DOMAIN rem /\ rem[guess[i]] > 0
              THEN referencePass2(guess, target, i + 1,
                                  [rem EXCEPT ![guess[i]] = @ - 1],
                                  Append(out, "present"))
              ELSE referencePass2(guess, target, i + 1, rem, Append(out, "absent"))

twoPassReference(guess, target) ==
    referencePass2(guess, target, 1, remainingAfterExact(guess, target), <<>>)

\* C15: for guess and target of equal length, evaluateGuess returns what the
\* two-pass reference over the multiset of remaining letters returns.
C15_EqualsTwoPassReference ==
    (evaluated /\ Len(call.guess) = Len(call.target))
        => ret.value = twoPassReference(call.guess, call.target)

\* a guess repeats a letter of which the target has fewer left: the first
\* occurrence is present, a later one absent
C15_Witness ==
    /\ evaluated
    /\ Len(call.guess) = Len(call.target)
    /\ \E i, j \in 1..Len(call.guess) :
           /\ i < j
           /\ call.guess[i] = call.guess[j]
           /\ ret.value[i] = "present"
           /\ ret.value[j] = "absent"

\* C16: no request awaiting its response carries a guess of another length
\* than its slot's, and the step that reports the length mismatch sends
\* nothing and leaves attempts, flags and board as they were.
C16_LengthMismatchRejected ==
    [][/\ \A c \in BagToSet(inflight') :
              Len(c.guess) = cellMetadata'.slotLengths[c.no]
       /\ (katlaMessage' = MsgLength /\ katlaMessage # MsgLength)
              => UNCHANGED <<inflight, entryAttempts, solvedEntries,
                             failedEntries, boardState>>]_vars

\* the mismatch message is shown for a guess shorter than its slot
C16_Witness ==
    /\ katlaMessage = MsgLength
    /\ activeEntryNo # NoEntry
    /\ Len(currentGuess) < activeEntryLength

\* C17: whenever ENTER is refused because the active slot is solved, failed
\* or has 6 guesses, the panel shows the message naming that reason.
C17_RejectionsReported ==
    (/\ activeEntryNo # NoEntry
     /\ \/ solvedEntries[activeEntryNo]
        \/ failedEntries[activeEntryNo]
        \/ Len(katlaGuesses) >= maxAttempts)
        => katlaMessage \in {MsgSolved, MsgFailed}

\* C18: a step that makes another slot active makes active a slot of the
\* puzzle that is neither solved nor failed, and changes nothing else of the
\* game; a solved or failed slot is never made active.
C18_SelectOnlyOpenSlot ==
    [][(activeEntryNo' # activeEntryNo /\ activeEntryNo' # NoEntry)
           => /\ activeEntryNo' \in entryNos
              /\ ~solvedEntries[activeEntryNo']
              /\ ~failedEntries[activeEntryNo']
              /\ UNCHANGED <<entryAttempts, solvedEntries, failedEntries,
                             boardState, inflight>>]_vars

\* a slot is active whose crossing slot, sharing the first cell, is solved or
\* failed
C18_Witness ==
    /\ activeEntryNo # NoEntry
    /\ \E no \in entryNos \ {activeEntryNo} :
           /\ solvedEntries[no] \/ failedEntries[no]
           /\ slotCell(findSlot(template, no), 0)
                  = slotCell(findSlot(template, activeEntryNo), 0)

\* C19: closing the panel or selecting another slot leaves attempts, flags
\* and board unchanged, and the panel of the selected slot shows exactly the
\* guesses recorded for it.
C19_SwitchKeepsHistory ==
    [][(activeEntryNo' # activeEntryNo /\ inflight' = inflight)
           => /\ UNCHANGED <<entryAttempts, solvedEntries, failedEntries, boardState>>
              /\ (activeEntryNo' # NoEntry
                     => katlaGuesses' = entryAttempts[activeEntryNo'])]_vars

\* the panel shows the recorded guesses of the active slot while another slot
\* has recorded guesses too and nothing awaits a response
C19_Witness ==
    /\ activeEntryNo # NoEntry
    /\ inflight = EmptyBag
    /\ ~failedEntries[activeEntryNo]
    /\ Len(katlaGuesses) > 0
    /\ katlaGuesses = entryAttempts[activeEntryNo]
    /\ \E no \in entryNos \ {activeEntryNo} :
           Len(entryAttempts[no]) > 0 /\ ~solvedEntries[no] /\ ~failedEntries[no]

\* C20: once all slots are solved or some slot is failed, no guess is
\* recorded for any slot.
C20_PlayEnds ==
    [][(/\ dailyPuzzle \in TemplateIds
        /\ \/ \A no \in entryNos : solvedEntries[no]
           \/ \E no \in entryNos : failedEntries[no])
           => entryAttempts' = entryAttempts]_vars

----
(* Claims about the session after errors, the validation endpoint and the
   puzzle load *)

\* a click on cell (row, col) opens slot no: handleCellClick followed by
\* handleSelectEntry
clickOpens(row, col, no) ==
    /\ row < template.gridSize[1] /\ col < template.gridSize[2]
    /\ template.grid[row + 1][col + 1] = 1
    /\ LET cellSlots  == cellMetadata.slotsByCell[row][col]
           candidates == SelectSeq(cellSlots,
                             LAMBDA n : ~solvedEntries[n] /\ ~failedEntries[n])
           preferred  == cellMetadata.numbering[row][col]
       IN  /\ Len(candidates) > 0
           /\ no = IF preferred # NoEntry
                      /\ \E k \in 1..Len(candidates) : candidates[k] = preferred
                   THEN preferred
                   ELSE candidates[1]

canSelect(no) == \E row \in 0..1, col \in 0..1 : clickOpens(row, col, no)

\* the messages of a rejected submit
RejectionMessages == {MsgLength, MsgInvalid, MsgFetch}

\* C21: once a slot is failed, and while the panel reports a rejected submit,
\* every slot that is neither solved nor failed can be opened by a click and,
\* once opened, takes a guess: it has fewer than maxAttempts recorded guesses,
\* so that the keyboard and submitGuess accept input for it.
C21_OtherSlotsStayUsable ==
    (/\ dailyPuzzle \in TemplateIds
     /\ \/ \E f \in entryNos : failedEntries[f]
        \/ katlaMessage \in RejectionMessages)
        => \A e \in entryNos :
               (~solvedEntries[e] /\ ~failedEntries[e])
                   => canSelect(e) /\ Len(entryAttempts[e]) < maxAttempts

\* a request the endpoint answered with {valid, correct}
answered == call.op = "katlaCheck" /\ ret.done /\ ret.value.status = 200

\* the letters of a word between its first and its last non-blank character,
\* in upper case
normalizedWord(w) ==
    LET inked == { i \in 1..Len(w) : w[i] # Blank }
    IN  IF inked = {} THEN <<>>
        ELSE LET first == CHOOSE i \in inked : \A j \in inked : i <= j
                 last  == CHOOSE i \in inked : \A j \in inked : j <= i
             IN  [k \in 1..(last - first + 1) |-> upperOf(w[first + k - 1])]

\* the same word with the case of every letter flipped
swapCase(w) ==
    [i \in 1..Len(w) |->
        CASE w[i] = "a" -> "A"
          [] w[i] = "A" -> "a"
          [] w[i] = "b" -> "B"
          [] w[i] = "B" -> "b"
          [] OTHER      -> w[i]]

\* C22: the endpoint answers valid = true exactly when the word, trimmed and
\* upper-cased, is in the dictionary bucket of its own length; valid is false
\* when the dictionary has no bucket of that length; and the same request with
\* the case of every letter flipped gets the same valid.
C22_ValidIffInOwnLengthBucket ==
    answered =>
        LET word    == normalizedWord(call.body.word.chars)
            flipped == [call.body EXCEPT !.word.chars = swapCase(call.body.word.chars)]
        IN  /\ ret.value.body.valid
                  <=> \E len \in DOMAIN KbbiBank : len = Len(word) /\ word \in KbbiBank[len]
            /\ (Len(word) \notin DOMAIN KbbiBank) => ~ret.value.body.valid
            /\ postKatlaCheck(flipped, call.server).body.valid = ret.value.body.valid

\* a padded word in mixed case is answered valid
C22_Witness ==
    /\ answered
    /\ ret.value.body.valid
    /\ Len(call.body.word.chars) > Len(normalizedWord(call.body.word.chars))
    /\ \E i \in 1..Len(call.body.word.chars) : call.body.word.chars[i] = "a"

\* the template a templateId names: a blank id counts as index 0, as
\* Number("") does; an id that names no puzzle file has no template
namedTemplate(text) ==
    IF text = "" THEN {"0"} ELSE {text} \cap TemplateIds

\* the answers of the named template, none when no template is named
namedAnswers(text) ==
    IF namedTemplate(text) = {} THEN <<>>
    ELSE PuzzleFiles[CHOOSE id \in namedTemplate(text) : TRUE].answers

malformed(body) ==
    \/ body.word.type # "string"
    \/ \A i \in 1..Len(body.word.chars) : body.word.chars[i] = Blank
    \/ body.slotNo.type # "number" \/ ~body.slotNo.integer \/ body.slotNo.value < 1
    \/ body.templateId.type \in {"undefined", "null"}
    \/ body.templateId.text \notin TemplateIds

\* a dictionary or a puzzle file that is neither cached nor readable
loadFails(sv) ==
    \/ ~sv.kbbiBankCache /\ ~sv.kbbiReadable
    \/ ~sv.puzzleFilesCache /\ ~sv.dirReadable
    \/ ~sv.puzzleTemplateCache /\ ~sv.puzzleReadable

\* C24: the endpoint answers 400 to every request with a missing or malformed
\* field (word absent, not a string or blank; slotNo absent, not an integer or
\* below 1; templateId absent or not a valid template index), 500 to a
\* well-formed request when the dictionary or the template cannot be loaded,
\* and 200 with {valid, correct} otherwise.
C24_StatusByRequest ==
    (call.op = "katlaCheck" /\ ret.done)
        => /\ malformed(call.body) => ret.value.status = 400
           /\ (~malformed(call.body) /\ loadFails(call.server))
                  => ret.value.status = 500
           /\ (~malformed(call.body) /\ ~loadFails(call.server))
                  => /\ ret.value.status = 200
                     /\ DOMAIN ret.value.body = {"valid", "correct"}

\* the scene without a puzzle
emptyScene ==
    /\ boardState = <<>>
    /\ activeEntryNo = NoEntry
    /\ katlaGuesses = <<>>
    /\ entryAttempts = NoAttempts
    /\ solvedEntries = NoFlags
    /\ failedEntries = NoFlags
    /\ inflight = EmptyBag

----
(* Claims about the documented examples and the purity of evaluateGuess *)

isRumahCall ==
    /\ call.op = "evaluateGuess"
    /\ call.guess = <<"R", "O", "M", "A", "N">>
    /\ call.target = <<"R", "U", "M", "A", "H">>

\* C26: for target RUMAH and guess ROMAN, evaluateGuess returns
\* [correct, absent, correct, correct, absent].
C26_RumahExample ==
    (isRumahCall /\ ret.done)
        => ret.value = <<"correct", "absent", "correct", "correct", "absent">>

C26_Witness == isRumahCall /\ ret.done

\* the evaluation just made is of the pair of a remembered earlier evaluation
evaluatedTwice ==
    /\ call.op = "evaluateGuess"
    /\ ret.done
    /\ call.before.done
    /\ call.before.guess = call.guess
    /\ call.before.target = call.target

isTanahCall ==
    /\ call.op = "evaluateGuess"
    /\ call.guess = <<"A", "T", "L", "A", "S">>
    /\ call.target = <<"T", "A", "N", "A", "H">>

----
(* Claims about overlapping responses and the solving guess *)

\* C29: no slot is both solved and failed.
C29_NeverSolvedAndFailed ==
    \A no \in SlotNos : ~(solvedEntries[no] /\ failedEntries[no])

\* the response to request c is processed as a verdict of the endpoint
answeredStep(c) ==
    /\ BagIn(c, inflight)
    /\ inflight' = inflight (-) SetToBag({c})
    /\ katlaMessage' # MsgFetch

\* C30: a guess equal to the slot's word, sent for a slot that was neither
\* solved nor failed and had fewer than 6 recorded attempts, and answered
\* valid, marks the slot solved and writes the word to the board; when the
\* dictionary does not hold the slot's word, the same guess is rejected and
\* the slot, its attempts and the board stay as they were.
C30_TargetGuessSolves ==
    [][\A c \in BagToSet(inflight) :
           (answeredStep(c) /\ c.guess = jawaban(c.no))
               => IF katlaCheck(c.guess, template.id, c.no).valid
                  THEN /\ solvedEntries'[c.no]
                       /\ spelled(c.no, boardState')
                  ELSE UNCHANGED <<solvedEntries, entryAttempts, boardState>>]_vars

\* a slot is solved, its last recorded guess is its word, and the board
\* spells it
C30_Witness ==
    /\ dailyPuzzle \in TemplateIds
    /\ \E no \in entryNos :
           /\ solvedEntries[no]
           /\ entryAttempts[no] # <<>>
           /\ entryAttempts[no][Len(entryAttempts[no])].guess = jawaban(no)
           /\ spelled(no, boardState)

----
\* C31: for a guess and a target of equal length, evaluateGuess returns
\* correct at every position if and only if the guess equals the target.
C31_AllCorrectIffEqual ==
    (evaluated /\ Len(call.guess) = Len(call.target)) =>
        (allCorrect(ret.value) <=> call.guess = call.target)

\* a guess that differs from its target only in the order of its letters is
\* evaluated, and is not all correct
C31_Witness ==
    /\ evaluated
    /\ Len(call.guess) = Len(call.target)
    /\ call.guess # call.target
    /\ \A ch \in EvalLetters :
           occurrences(call.guess, ch) = occurrences(call.target, ch)
    /\ ~allCorrect(ret.value)

----
\* the step records a guess as the 6th of slot no in the main scene, and the
\* guess is fully correct
sixthCorrectStep(no) ==
    /\ entryAttempts'[no] # entryAttempts[no]
    /\ Len(entryAttempts'[no]) = maxAttempts
    /\ allCorrect(entryAttempts'[no][maxAttempts].states)

\* the same for word no of the modal scene
modalSixthCorrectStep(no) ==
    /\ ret'.progressByWord[no].rows # ret.progressByWord[no].rows
    /\ Len(ret'.progressByWord[no].rows) = MAX_ATTEMPTS
    /\ allCorrect(ret'.progressByWord[no].rows[MAX_ATTEMPTS].statuses)

\* C32: when the 6th accepted guess of a slot is fully correct, the slot is
\* solved and not failed after the step that records it, in the main scene
\* and in the modal scene alike.
C32_SixthCorrectGuessSolves ==
    [][IF call.op = "WordleModal"
       THEN \A no \in SlotNos :
                modalSixthCorrectStep(no)
                    => /\ ret'.solvedWords[no] # <<>>
                       /\ ~ret'.progressByWord[no].isFailed
       ELSE \A no \in SlotNos :
                sixthCorrectStep(no)
                    => /\ solvedEntries'[no]
                       /\ ~failedEntries'[no]]_vars

\* the main scene holds a slot solved by its 6th recorded guess
mainSolvedBySixth ==
    /\ call.op = "none"
    /\ \E no \in SlotNos :
           /\ Len(entryAttempts[no]) = maxAttempts
           /\ allCorrect(entryAttempts[no][maxAttempts].states)
           /\ solvedEntries[no]
           /\ ~failedEntries[no]

\* the modal scene holds a word solved by its 6th row
C32_Witness ==
    /\ call.op = "WordleModal"
    /\ \E no \in SlotNos :
           /\ Len(ret.progressByWord[no].rows) = MAX_ATTEMPTS
           /\ allCorrect(ret.progressByWord[no].rows[MAX_ATTEMPTS].statuses)
           /\ ret.solvedWords[no] # <<>>
           /\ ~ret.progressByWord[no].isFailed

----
\* the request submitGuess sends for closure c (494-496)
requestOf(c) ==
    [word       |-> [type |-> "string", chars |-> c.guess],
     slotNo     |-> [type |-> "number", integer |-> TRUE, value |-> c.no],
     templateId |-> [type |-> "string", text |-> template.id]]

\* C33: for every guess the scene sends and the backend answers valid, the
\* scene marks the guessed slot solved exactly when the backend's response to
\* the same (templateId, slotNo, word) has correct = true; a guess the backend
\* calls incorrect leaves the solved flags alone.
C33_FrontendAgreesWithBackend ==
    [][\A c \in BagToSet(inflight) :
           answeredStep(c) =>
               \A sv \in ServerStates :
                   LET response == postKatlaCheck(requestOf(c), sv)
                   IN  (response.status = 200 /\ response.body.valid)
                           => IF response.body.correct
                              THEN solvedEntries'[c.no]
                              ELSE UNCHANGED solvedEntries]_vars

\* the slot whose word the puzzle file holds in lower case is solved by a
\* guess the backend calls correct
C33_Witness ==
    /\ dailyPuzzle \in TemplateIds
    /\ \E no \in entryNos :
           /\ solvedEntries[no]
           /\ entryAttempts[no] # <<>>
           /\ LET guess == entryAttempts[no][Len(entryAttempts[no])].guess
              IN  /\ guess # PuzzleFiles[dailyPuzzle].answers[no].word
                  /\ \E sv \in ServerStates :
                         LET response ==
                                 postKatlaCheck(
                                     requestOf([guess |-> guess, no |-> no]), sv)
                         IN  response.status = 200 /\ response.body.correct

----
\* C34: for every pair of upper-case guess and target of equal length, the
\* evaluateGuess of the main scene and the evaluateGuess of the modal scene
\* return the same feedback.
C34_BothEvaluateGuessAgree ==
    (evaluated /\ Len(call.guess) = Len(call.target)
               /\ toUpperCase(call.guess) = call.guess
               /\ toUpperCase(call.target) = call.target)
        => ret.value = modalEvaluateGuess(call.guess, call.target)

\* a pair on which both loops decide: the guess holds a letter twice, the
\* target once and elsewhere, and a letter in its place
C34_Witness ==
    /\ evaluated
    /\ Len(call.guess) = Len(call.target)
    /\ \E i, j, k \in 1..Len(call.guess) :
           /\ ret.value[i] = "present"
           /\ ret.value[j] = "absent"
           /\ ret.value[k] = "correct"
           /\ call.guess[i] = call.guess[j]
    /\ ret.value = modalEvaluateGuess(call.guess, call.target)

----
\* the step processes an accepted guess of closure c that is not fully correct
acceptedWrongStep(c) ==
    /\ answeredStep(c)
    /\ katlaCheck(c.guess, template.id, c.no).valid
    /\ ~allCorrect(evaluateGuess(c.guess, jawaban(c.no)))

\* C35: an accepted guess that is not fully correct appends one entry to the
\* attempts of the guessed slot and may set that slot's failed flag; the
\* board, every solved flag, and the attempts and failed flag of every other
\* slot stay as they were.
C35_WrongGuessTouchesOwnSlotOnly ==
    [][\A c \in BagToSet(inflight) :
           acceptedWrongStep(c) =>
               /\ Len(entryAttempts'[c.no]) = Len(entryAttempts[c.no]) + 1
               /\ SubSeq(entryAttempts'[c.no], 1, Len(entryAttempts[c.no]))
                      = entryAttempts[c.no]
               /\ UNCHANGED <<boardState, solvedEntries>>
               /\ \A no \in SlotNos \ {c.no} :
                      /\ entryAttempts'[no] = entryAttempts[no]
                      /\ failedEntries'[no] = failedEntries[no]]_vars

----
filled == call.op = "fillWordOnBoard" /\ ret.done

\* the index along slot of the cell in row r and column c (from 0), -1 when
\* the slot does not cover it
cellOfSlot(slot, r, c) ==
    IF \E i \in 0..(slot.length - 1) : slotCell(slot, i) = <<r, c>>
    THEN CHOOSE i \in 0..(slot.length - 1) : slotCell(slot, i) = <<r, c>>
    ELSE -1

\* C36: for an answer with one letter per cell of the slot, fillWordOnBoard
\* returns a board of the input's shape that holds answer[i] in every cell i
\* of slot no that lies on the board and the input's letter everywhere else;
\* the input board is as it was after the call; and when the template has no
\* slot numbered no, the input board itself is returned.
C36_FillWritesSlotCellsOnly ==
    filled =>
        LET tpl == templates[call.template_id]
        IN  /\ ret.board = call.board
            /\ ret.value = fillWordOnBoard(call.board, tpl, call.wordNo, call.answer)
            /\ IF ~hasSlot(tpl, call.wordNo)
               THEN ret.same /\ ret.value = call.board
               ELSE LET slot == findSlot(tpl, call.wordNo)
                    IN  Len(call.answer) = slot.length =>
                            /\ Len(ret.value) = Len(call.board)
                            /\ \A r \in 1..Len(call.board) :
                                   /\ Len(ret.value[r]) = Len(call.board[r])
                                   /\ \A c \in 1..Len(call.board[r]) :
                                          LET i == cellOfSlot(slot, r - 1, c - 1)
                                          IN  ret.value[r][c] =
                                                  IF i = -1 THEN call.board[r][c]
                                                  ELSE call.answer[i + 1]

\* a down slot that leaves a one-row board was filled: its first cell was
\* overwritten, a cell beside it kept its letter
C36_Witness ==
    /\ filled
    /\ hasSlot(templates[call.template_id], call.wordNo)
    /\ findSlot(templates[call.template_id], call.wordNo).arah = "menurun"
    /\ Len(call.board) = 1
    /\ ret.value # call.board
    /\ \E c \in 1..2 : call.board[1][c] # "" /\ ret.value[1][c] = call.board[1][c]
    /\ ret.board = call.board

----
\* C37: when every guess is answered and accepted, a slot is solved or failed
\* once it has received 6 accepted guesses, so that never more than 6 times
\* the number of slots guesses are accepted in a game.  On a puzzle of one
\* slot the accepted guesses of the game are those of that slot.
C37_SixAcceptedGuessesEndASlot ==
    dailyPuzzle \in TemplateIds =>
        /\ accepted <= maxAttempts * Cardinality(entryNos)
        /\ (Cardinality(entryNos) = 1 /\ accepted >= maxAttempts)
               => \A no \in entryNos : solvedEntries[no] \/ failedEntries[no]

----
\* the feedback letter received in the recorded guesses
feedbackOf(guesses, letter) ==
    { guesses[k].states[i] :
          <<k, i>> \in { <<k, i>> \in (1..Len(guesses)) \X (1..RepeatWordLen) :
                             guesses[k].guess[i] = letter } }

\* the status a key shows, "empty" when the map does not hold the letter
keyStatus(map, letter) == IF letter \in DOMAIN map THEN map[letter] ELSE "empty"

\* C38: the status computeKeyboardState gives a letter is the highest-ranked
\* feedback the letter received in any recorded guess (correct above present
\* above absent), no status for a letter never guessed; and recording a
\* further guess never lowers the status of a key.
C38_KeyShowsBestFeedback ==
    [][call.op = "computeKeyboardState" =>
           /\ \A letter \in EvalLetters :
                  LET fb == feedbackOf(call'.guesses, letter)
                  IN  IF fb = {} THEN letter \notin DOMAIN ret'.value
                      ELSE /\ letter \in DOMAIN ret'.value
                           /\ ret'.value[letter] \in fb
                           /\ \A f \in fb : STATE_PRIORITY(f)
                                                <= STATE_PRIORITY(ret'.value[letter])
           /\ \A letter \in EvalLetters :
                  STATE_PRIORITY(keyStatus(ret'.value, letter))
                      >= STATE_PRIORITY(keyStatus(ret.value, letter))]_vars

\* a letter was correct in an earlier guess and only present in the latest:
\* its key stays correct
C38_Witness ==
    /\ call.op = "computeKeyboardState"
    /\ Len(call.guesses) >= 2
    /\ \E letter \in EvalLetters :
           /\ "correct" \in feedbackOf(SubSeq(call.guesses, 1, Len(call.guesses) - 1),
                                       letter)
           /\ feedbackOf(SubSeq(call.guesses, Len(call.guesses), Len(call.guesses)),
                         letter) = {"present"}
           /\ keyStatus(ret.value, letter) = "correct"

dailyAsked == call.op = "getDailyPuzzle" /\ ret.done

\* one step of h = (31 * h + code) mod 2^32 on the four bytes of h, lowest first
bytesStep(b, code) ==
    LET t1 == b[1] * 31 + code
        t2 == b[2] * 31 + t1 \div 256
        t3 == b[3] * 31 + t2 \div 256
        t4 == b[4] * 31 + t3 \div 256
    IN  <<t1 % 256, t2 % 256, t3 % 256, t4 % 256>>

RECURSIVE rollingHash(_)
\* the rolling hash of the characters of a string, as four bytes
rollingHash(str) ==
    IF Len(str) = 0 THEN <<0, 0, 0, 0>>
    ELSE bytesStep(rollingHash(SubSeq(str, 1, Len(str) - 1)),
                   charCodeAt(str[Len(str)]))

RECURSIVE plainHash(_)
\* the same sum without the modulus, for strings too short to reach 2^32
plainHash(str) ==
    IF Len(str) = 0 THEN 0
    ELSE 31 * plainHash(SubSeq(str, 1, Len(str) - 1)) + charCodeAt(str[Len(str)])

\* C39: seedFromDate is the 32-bit unsigned rolling hash
\* h = (31 * h + charCode) mod 2^32 of the date string, a value in [0, 2^32);
\* pickFromArray's index is within the bounds of a non-empty list and the
\* template of the day is the one at that index; getDailyPuzzle gives the same
\* result when called again with the same date string and template list.
C39_SeedIsRollingHashPickInBounds ==
    dailyAsked =>
        LET seed  == seedFromDate(call.dateStr)
            bytes == rollingHash(call.dateStr)
            n     == Len(call.templates)
        IN  /\ seed.hi \in 0..(TwoTo16 - 1)
            /\ seed.lo \in 0..(TwoTo16 - 1)
            /\ seed.hi = bytes[4] * 256 + bytes[3]
            /\ seed.lo = bytes[2] * 256 + bytes[1]
            /\ Len(call.dateStr) <= 4
                  => seed.hi * TwoTo16 + seed.lo = plainHash(call.dateStr)
            /\ ret.value.isNull <=> n = 0
            /\ n > 0 => /\ ret.value.seed = seed
                        /\ ret.value.idx \in 0..(n - 1)
                        /\ ret.value.template_id = call.templates[ret.value.idx + 1].id
            /\ call.before.done => ret.value = call.before.value

\* the puzzle of 2026-11-04 among five templates, asked for twice: the hash
\* has wrapped past 2^32 and is 1162589254, which picks index 4
C39_Witness ==
    /\ dailyAsked
    /\ call.before.done
    /\ call.dateStr = <<"2", "0", "2", "6", "-", "1", "1", "-", "0", "4">>
    /\ Len(call.templates) = 5
    /\ ret.value.seed = [hi |-> 17739, lo |-> 46150]
    /\ ret.value.idx = 4
    /\ ret.value.template_id = "4"

====
